---- MODULE Spec2Model ----
(***************************************************************************)
(* mico: permission engine (src/src/permission.py), tool execution context *)
(* (src/src/tools/base.py), the tools' permission requests                 *)
(* (src/src/tools/*.py), the agent loop (src/src/loop.py) and the turn     *)
(* driver of interactive mode (src/main.py).                               *)
(*                                                                         *)
(* A Python str is a sequence of one-character strings, so that glob       *)
(* matching and path handling work on characters as the code does.         *)
(***************************************************************************)
EXTENDS Naturals, Integers, Sequences, FiniteSets, TLC

VARIABLES
    rules,        \* PermissionManager.rules: the configured rules
    approved,     \* PermissionManager.approved: the rules added by "always"
    granted,      \* the (permission, pattern) pairs the user answered "always" to
                  \* (in the session: those of the turns before the current one)
    last,         \* the last operation performed and what it showed
    agent_name,   \* interactive_mode: the selected agent
    session,      \* Session.messages
    turn,         \* the number of user inputs handed to AgentLoop.run so far
    pc,           \* where run() stands: "idle" between turns
    step,         \* run(): step
    finish_reason,\* _process_stream(): finish_reason
    idx,          \* _execute_tools(): the position of the tool call being executed
    returned,     \* the position in the session of the message run() returned, or 0
    pool,         \* the tool calls the model may request
    budget,       \* the number of tool calls the model may still request
    provider,     \* a provider's stream() or retry_async: its retry loop
    assembler,    \* _process_stream(): the chunks consumed and tool_calls
    runner,       \* a turn run through an entry path: run() and its caller
    manager       \* SessionManager: its _sessions and the files of storage_dir

loopVars == <<agent_name, session, turn, pc, step, finish_reason, idx, returned,
              pool, budget>>
ioVars == <<provider, assembler, runner, manager>>
vars == <<rules, approved, granted, last, agent_name, session, turn, pc, step,
          finish_reason, idx, returned, pool, budget, provider, assembler, runner,
          manager>>

\* The values of provider, assembler, runner and manager while no call is
\* being made.
NoStream == [pc |-> "idle"]
NoAssembly == [pc |-> "idle"]
NoRun == [pc |-> "idle"]
NoStore == [pc |-> "idle"]

\* The value of last before any operation.
NoCall == [op |-> "none"]

\* The sequences over S of length at most n.
RECURSIVE SeqsUpTo(_, _)
SeqsUpTo(S, n) ==
    IF n = 0 THEN {<<>>}
    ELSE LET shorter == SeqsUpTo(S, n - 1)
         IN  shorter \cup {Append(s, x) : s \in {t \in shorter : Len(t) = n - 1}, x \in S}

-----------------------------------------------------------------------------
(* String literals of the program, as character sequences.                 *)

Star == <<"*">>
S_bash == <<"b", "a", "s", "h">>
S_edit == <<"e", "d", "i", "t">>
S_read == <<"r", "e", "a", "d">>
S_list == <<"l", "i", "s", "t">>
S_glob == <<"g", "l", "o", "b">>
S_ask_user == <<"a", "s", "k", "_", "u", "s", "e", "r">>
S_doom_loop == <<"d", "o", "o", "m", "_", "l", "o", "o", "p">>

PermissionAction == {"allow", "deny", "ask"}

PermissionRule(permission, pattern, action) ==
    [permission |-> permission, pattern |-> pattern, action |-> action]

-----------------------------------------------------------------------------
(* fnmatch.fnmatch(value, pattern) as PermissionManager._match calls it    *)
(* (POSIX: no case folding).  '*' matches any run of characters, '?' any   *)
(* one character, '[seq]' one character of seq, '[!seq]' one character not *)
(* in seq; a '[' that no ']' closes is a literal '['.  A ']' right after   *)
(* '[' or '[!' belongs to seq.  Character ranges (x-y) inside brackets are *)
(* not modelled: no string of the model has a '-' inside brackets.         *)

RECURSIVE FindClose(_, _)
FindClose(pat, k) ==
    IF k > Len(pat) THEN 0
    ELSE IF pat[k] = "]" THEN k
    ELSE FindClose(pat, k + 1)

\* The index of the ']' that closes the '[' at index j of pat, or 0.
ClassEnd(pat, j) ==
    LET j1 == IF j + 1 <= Len(pat) /\ pat[j + 1] = "!" THEN j + 2 ELSE j + 1
        j2 == IF j1 <= Len(pat) /\ pat[j1] = "]" THEN j1 + 1 ELSE j1
    IN  FindClose(pat, j2)

\* Whether character c is matched by the bracket expression pat[j..e].
InClass(c, pat, j, e) ==
    LET negated == pat[j + 1] = "!"
        first == IF negated THEN j + 2 ELSE j + 1
        members == {pat[k] : k \in first..(e - 1)}
    IN  IF negated THEN c \notin members ELSE c \in members

RECURSIVE GlobFrom(_, _, _, _)
\* Whether value[i..] is matched by pat[j..].
GlobFrom(value, pat, i, j) ==
    IF j > Len(pat) THEN i > Len(value)
    ELSE IF pat[j] = "*"
        THEN GlobFrom(value, pat, i, j + 1)
             \/ (i <= Len(value) /\ GlobFrom(value, pat, i + 1, j))
    ELSE IF i > Len(value) THEN FALSE
    ELSE IF pat[j] = "?" THEN GlobFrom(value, pat, i + 1, j + 1)
    ELSE IF pat[j] = "["
        THEN LET e == ClassEnd(pat, j)
             IN  IF e = 0
                 THEN value[i] = "[" /\ GlobFrom(value, pat, i + 1, j + 1)
                 ELSE InClass(value[i], pat, j, e) /\ GlobFrom(value, pat, i + 1, e + 1)
    ELSE value[i] = pat[j] /\ GlobFrom(value, pat, i + 1, j + 1)

fnmatch(value, pattern) == GlobFrom(value, pattern, 1, 1)

\* PermissionManager._match
_match(value, pattern) ==
    IF pattern = Star THEN TRUE ELSE fnmatch(value, pattern)

-----------------------------------------------------------------------------
(* PermissionManager.evaluate: the rules followed by the approved rules,   *)
(* scanned from the end; the first rule met whose two patterns match       *)
(* decides; "ask" when none does.                                          *)

RuleMatches(rule, permission, pattern) ==
    _match(permission, rule.permission) /\ _match(pattern, rule.pattern)

RECURSIVE ScanReversed(_, _, _, _)
ScanReversed(all_rules, k, permission, pattern) ==
    IF k = 0 THEN "ask"
    ELSE IF RuleMatches(all_rules[k], permission, pattern) THEN all_rules[k].action
    ELSE ScanReversed(all_rules, k - 1, permission, pattern)

RECURSIVE ScanForward(_, _, _, _)
ScanForward(all_rules, k, permission, pattern) ==
    IF k > Len(all_rules) THEN "ask"
    ELSE IF RuleMatches(all_rules[k], permission, pattern) THEN all_rules[k].action
    ELSE ScanForward(all_rules, k + 1, permission, pattern)

\* A bug evaluate could have: the first matching rule wins.
evaluate_first_match(rs, appr, permission, pattern) ==
    ScanForward(rs \o appr, 1, permission, pattern)

evaluate(rs, appr, permission, pattern) ==
    LET all_rules == rs \o appr
    IN  ScanReversed(all_rules, Len(all_rules), permission, pattern)

-----------------------------------------------------------------------------
(* PermissionManager._default_ask, the interactive callback.  response is  *)
(* what the user types: "y", "n" or "always".  The result is the approved  *)
(* list afterwards and the callback's return value.                        *)

Responses == {"y", "n", "always"}

default_ask(appr, permission, pattern, response) ==
    IF response = "always"
    THEN [approved |-> Append(appr, PermissionRule(permission, pattern, "allow")),
          allowed |-> TRUE]
    ELSE [approved |-> appr, allowed |-> response = "y"]

(* PermissionManager.check.  The patterns are taken in list order; the k-th*)
(* prompt of the call is answered by responses[k].  The result is the      *)
(* approved list afterwards, the exception raised ("none",                 *)
(* "PermissionDeniedError" or "PermissionRejectedError"), and a trace with *)
(* one entry per pattern the loop body ran for: the pattern, the action    *)
(* evaluate gave, and the response when the callback was invoked ("-" when *)
(* it was not).                                                            *)

RECURSIVE CheckFrom(_, _, _, _, _, _, _)
CheckFrom(rs, appr, permission, patterns, responses, k, trace) ==
    IF k > Len(patterns)
    THEN [approved |-> appr, raised |-> "none", trace |-> trace]
    ELSE
        LET pattern == patterns[k]
            action == evaluate(rs, appr, permission, pattern)
            nprompts == Cardinality({i \in 1..Len(trace) : trace[i].response # "-"})
        IN  IF action = "deny"
            THEN [approved |-> appr, raised |-> "PermissionDeniedError",
                  trace |-> Append(trace, [pattern |-> pattern, action |-> action,
                                           response |-> "-"])]
            ELSE IF action = "ask"
            THEN LET response == responses[nprompts + 1]
                     asked == default_ask(appr, permission, pattern, response)
                     entry == [pattern |-> pattern, action |-> action,
                               response |-> response]
                 IN  IF ~asked.allowed
                     THEN [approved |-> asked.approved,
                           raised |-> "PermissionRejectedError",
                           trace |-> Append(trace, entry)]
                     ELSE CheckFrom(rs, asked.approved, permission, patterns,
                                    responses, k + 1, Append(trace, entry))
            ELSE CheckFrom(rs, appr, permission, patterns, responses, k + 1,
                           Append(trace, [pattern |-> pattern, action |-> action,
                                          response |-> "-"]))

\* A bug check could have: a denied pattern is skipped instead of raising.
check_ignoring_deny(rs, appr, permission, patterns, responses) ==
    LET allowed == SelectSeq(patterns,
                       LAMBDA p : evaluate(rs, appr, permission, p) # "deny")
    IN  CheckFrom(rs, appr, permission, allowed, responses, 1, <<>>)

check(rs, appr, permission, patterns, responses) ==
    CheckFrom(rs, appr, permission, patterns, responses, 1, <<>>)

-----------------------------------------------------------------------------
(* The rule list interactive_mode builds for a turn: DEFAULT_RULES         *)
(* followed by the selected agent's rules.                                 *)

DEFAULT_RULES ==
    << PermissionRule(Star, Star, "allow"),
       PermissionRule(S_bash, <<"r", "m", " ", "*">>, "ask"),
       PermissionRule(S_bash, <<"s", "u", "d", "o", " ", "*">>, "ask"),
       PermissionRule(S_edit, <<"*", ".", "e", "n", "v">>, "ask"),
       PermissionRule(S_edit, <<"*", ".", "e", "n", "v", ".", "*">>, "ask"),
       PermissionRule(S_doom_loop, Star, "ask") >>

MaxSteps == 3       \* AgentConfig.max_steps of both agents (50 and 30 in the code)

create_build_agent ==
    [name |-> "build",
     permissions |->
        << PermissionRule(Star, Star, "allow"),
           PermissionRule(S_bash, <<"r", "m", " ", "-", "r", "f", " ", "*">>, "ask"),
           PermissionRule(S_bash, <<"s", "u", "d", "o", " ", "*">>, "ask"),
           PermissionRule(S_edit, <<"*", ".", "e", "n", "v">>, "ask") >>,
     max_steps |-> MaxSteps]

create_plan_agent ==
    [name |-> "plan",
     permissions |->
        << PermissionRule(S_read, Star, "allow"),
           PermissionRule(S_glob, Star, "allow"),
           PermissionRule(S_list, Star, "allow"),
           PermissionRule(S_edit, Star, "deny"),
           PermissionRule(S_bash, Star, "ask") >>,
     max_steps |-> MaxSteps]

AgentNames == {"build", "plan"}

\* AgentManager.get
agent_config(name) == IF name = "plan" THEN create_plan_agent ELSE create_build_agent

\* create_default_permission_manager() followed by merge_rules(permissions)
merge_rules(rs, more) == rs \o more

-----------------------------------------------------------------------------
(* Tool inputs.  A ToolCall.input is a dict with string keys: a sequence   *)
(* of <<key, value>> pairs in insertion order, no key twice.  The values   *)
(* of the model are strings (character sequences).                         *)

Has(input, key) == \E i \in 1..Len(input) : input[i][1] = key
Get(input, key) == input[CHOOSE i \in 1..Len(input) : input[i][1] = key][2]

\* dict.get(key) is truthy: the key is there and its string is not empty.
Truthy(input, key) == Has(input, key) /\ Get(input, key) # <<>>

\* The keys of the model's inputs, in the order sort_keys puts them.
KeyOrder ==
    <<"command", "description", "file_path", "new_string", "old_string",
      "path", "pattern", "questions", "raw">>

\* A bug the rendering could have: the pairs in insertion order.
json_dumps_insertion_order(input) == input

\* The pairs of input whose keys are KeyOrder[k], KeyOrder[k + 1], ... in
\* that order.
RECURSIVE SortedFrom(_, _)
SortedFrom(input, k) ==
    IF k > Len(KeyOrder) THEN <<>>
    ELSE IF Has(input, KeyOrder[k])
    THEN << <<KeyOrder[k], Get(input, KeyOrder[k])>> >> \o SortedFrom(input, k + 1)
    ELSE SortedFrom(input, k + 1)

\* json.dumps(input, sort_keys=True): the pairs rendered in key order.
json_dumps(input) == SortedFrom(input, 1)

-----------------------------------------------------------------------------
(* Paths.  str(Path(p)) on POSIX: runs of '/' collapse, '.' components and *)
(* a trailing '/' go, '..' stays; exactly two leading slashes are kept.    *)

\* acc with the component cur added, unless cur is empty or '.'.
AddPart(acc, cur) == IF cur = <<>> \/ cur = <<".">> THEN acc ELSE Append(acc, cur)

\* The components of s from index i on, cur being the one under way.
RECURSIVE SplitParts(_, _, _, _)
SplitParts(s, i, cur, acc) ==
    IF i > Len(s) THEN AddPart(acc, cur)
    ELSE IF s[i] = "/" THEN SplitParts(s, i + 1, <<>>, AddPart(acc, cur))
    ELSE SplitParts(s, i + 1, Append(cur, s[i]), acc)

RECURSIVE JoinParts(_, _)
JoinParts(parts, i) ==
    IF i > Len(parts) THEN <<>>
    ELSE IF i = Len(parts) THEN parts[i]
    ELSE parts[i] \o <<"/">> \o JoinParts(parts, i + 1)

isabs(p) == Len(p) > 0 /\ p[1] = "/"

PathStr(p) ==
    LET parts == SplitParts(p, 1, <<>>, <<>>)
        root == IF ~isabs(p) THEN <<>>
                ELSE IF Len(p) >= 2 /\ p[2] = "/" /\ (Len(p) = 2 \/ p[3] # "/")
                THEN <<"/", "/">>
                ELSE <<"/">>
    IN  IF root = <<>> /\ parts = <<>> THEN <<".">>
        ELSE root \o JoinParts(parts, 1)

\* ToolContext.working_dir, already resolved: "/w"
working_dir == <<"/", "w">>

\* The path EditTool and ReadTool ask permission for.
resolve_path(file_path) ==
    IF ~isabs(file_path)
    THEN PathStr(working_dir \o <<"/">> \o file_path)
    ELSE PathStr(file_path)

-----------------------------------------------------------------------------
(* The tools.  What a tool's execute does up to its permission request:    *)
(* it raises KeyError for a missing required parameter, or calls           *)
(* ctx.ask_permission(permission, patterns), or asks for nothing.  What    *)
(* the tool does to the file system or the terminal afterwards is left     *)
(* out: it ends in a ToolResult.                                           *)

ToolNames == {S_bash, S_edit, S_read, S_list, S_glob, S_ask_user}

KeyError == [raised |-> "KeyError", asks |-> FALSE, permission |-> <<>>, patterns |-> <<>>]
NoRequest == [raised |-> "none", asks |-> FALSE, permission |-> <<>>, patterns |-> <<>>]
Request(permission, patterns) ==
    [raised |-> "none", asks |-> TRUE, permission |-> permission, patterns |-> patterns]

BashTool_execute(params) ==
    IF ~Has(params, "command") THEN KeyError
    ELSE Request(S_bash, <<Get(params, "command")>>)

EditTool_execute(params) ==
    IF ~Has(params, "file_path") \/ ~Has(params, "old_string")
         \/ ~Has(params, "new_string")
    THEN KeyError
    ELSE Request(S_edit, <<resolve_path(Get(params, "file_path"))>>)

ReadTool_execute(params) ==
    IF ~Has(params, "file_path") THEN KeyError
    ELSE Request(S_read, <<resolve_path(Get(params, "file_path"))>>)

ListTool_execute(params) == NoRequest

GlobTool_execute(params) == IF ~Has(params, "pattern") THEN KeyError ELSE NoRequest

AskUserTool_execute(params) == NoRequest

tool_execute(tool_name, params) ==
    CASE tool_name = S_bash -> BashTool_execute(params)
      [] tool_name = S_edit -> EditTool_execute(params)
      [] tool_name = S_read -> ReadTool_execute(params)
      [] tool_name = S_list -> ListTool_execute(params)
      [] tool_name = S_glob -> GlobTool_execute(params)
      [] OTHER -> AskUserTool_execute(params)

-----------------------------------------------------------------------------
(* AgentLoop._execute_tools, one iteration of its for loop.                *)

\* The parameter the loop takes the early check's pattern from.
precheck_key(tool_name) ==
    CASE tool_name = S_bash -> "command"
      [] tool_name = S_edit -> "file_path"
      [] tool_name = S_read -> "file_path"
      [] tool_name = S_list -> "path"
      [] tool_name = S_glob -> "pattern"
      [] OTHER -> "-"

precheck_patterns(tc) ==
    LET key == precheck_key(tc.tool_name)
    IN  IF key # "-" /\ Truthy(tc.input, key) THEN <<Get(tc.input, key)>> ELSE <<>>

\* The prompts of a check call: its trace entries with a response, from the
\* k-th on.
RECURSIVE PromptsFrom(_, _, _, _)
PromptsFrom(permission, trace, phase, k) ==
    IF k > Len(trace) THEN <<>>
    ELSE IF trace[k].response = "-" THEN PromptsFrom(permission, trace, phase, k + 1)
    ELSE << [permission |-> permission, pattern |-> trace[k].pattern,
             response |-> trace[k].response, phase |-> phase] >>
         \o PromptsFrom(permission, trace, phase, k + 1)

Prompts(permission, trace, phase) == PromptsFrom(permission, trace, phase, 1)

NoCheck(appr) == [approved |-> appr, raised |-> "none", trace |-> <<>>]

(* ToolContext.ask_permission.  preapproved is ctx._preapproved as a set   *)
(* of <<permission, pattern>> pairs; it holds a permission only together   *)
(* with a pattern, because preapprove is called with a non-empty list.     *)
RECURSIVE Remaining(_, _, _, _)
Remaining(preapproved, permission, patterns, k) ==
    IF k > Len(patterns) THEN <<>>
    ELSE IF <<permission, patterns[k]>> \in preapproved
    THEN Remaining(preapproved, permission, patterns, k + 1)
    ELSE <<patterns[k]>> \o Remaining(preapproved, permission, patterns, k + 1)

ask_permission(rs, appr, preapproved, permission, patterns, responses) ==
    LET known == \E pair \in preapproved : pair[1] = permission
        remaining == Remaining(preapproved, permission, patterns, 1)
    IN  IF known /\ remaining = <<>> THEN NoCheck(appr)
        ELSE check(rs, appr, permission, IF known THEN remaining ELSE patterns,
                   responses)

(* The body of the loop for one registered tool call tc, in the order the  *)
(* code runs it.  pre is precheck_patterns; early is the outcome of the    *)
(* early check (no check when pre is empty); ex is what tool.execute does  *)
(* up to its permission request; own is the outcome of that request.       *)

early_check(rs, appr, tc, pre, responses) ==
    IF pre # <<>> THEN check(rs, appr, tc.tool_name, pre, responses)
    ELSE NoCheck(appr)

\* ctx.preapprove(tc.tool_name, pre)
preapprove(tc, pre) == {<<tc.tool_name, pre[i]>> : i \in 1..Len(pre)}

own_check(rs, tc, pre, early, ex, responses) ==
    IF ex.asks
    THEN ask_permission(rs, early.approved, preapprove(tc, pre), ex.permission,
             ex.patterns,
             SubSeq(responses, Len(Prompts(tc.tool_name, early.trace, "loop")) + 1,
                    Len(responses)))
    ELSE NoCheck(early.approved)

(* The result: the approved list afterwards, the exception that ended the  *)
(* body ("none", "KeyError", "PermissionDeniedError",                      *)
(* "PermissionRejectedError"), whether the early check ran, whether        *)
(* tool.execute was entered, and the prompts shown, in order.              *)
outcome(tc, pre, early, ex, own) ==
    IF early.raised # "none"
    THEN [approved |-> early.approved, raised |-> early.raised,
          prechecked |-> TRUE, started |-> FALSE,
          prompts |-> Prompts(tc.tool_name, early.trace, "loop")]
    ELSE IF ex.raised # "none"
    THEN [approved |-> early.approved, raised |-> ex.raised,
          prechecked |-> pre # <<>>, started |-> TRUE,
          prompts |-> Prompts(tc.tool_name, early.trace, "loop")]
    ELSE [approved |-> own.approved, raised |-> own.raised,
          prechecked |-> pre # <<>>, started |-> TRUE,
          prompts |-> Prompts(tc.tool_name, early.trace, "loop")
                      \o Prompts(ex.permission, own.trace, "tool")]

execute_checked(rs, tc, pre, early, ex, responses) ==
    outcome(tc, pre, early, ex, own_check(rs, tc, pre, early, ex, responses))

execute_with(rs, appr, tc, pre, responses) ==
    execute_checked(rs, tc, pre, early_check(rs, appr, tc, pre, responses),
                    tool_execute(tc.tool_name, tc.input), responses)

execute_one(rs, appr, tc, responses) ==
    execute_with(rs, appr, tc, precheck_patterns(tc), responses)

\* The outcome of the loop body for a tool the registry does not hold.
unknown_tool(appr) ==
    [approved |-> appr, raised |-> "UnknownTool", prechecked |-> FALSE,
     started |-> FALSE, prompts |-> <<>>]

\* self.tools.get(tc.tool_name) and the loop body that follows it.
run_tool(rs, appr, tc, responses) ==
    IF tc.tool_name \in ToolNames THEN execute_one(rs, appr, tc, responses)
    ELSE unknown_tool(appr)

-----------------------------------------------------------------------------
(* AgentLoop._detect_doom_loop.                                            *)

DOOM_LOOP_THRESHOLD == 3

(* recent_calls: the messages are walked from the last one backwards, the  *)
(* parts of one message from its first one forwards, until                 *)
(* DOOM_LOOP_THRESHOLD calls are collected.                                *)
RECURSIVE recent_calls(_, _, _, _)
recent_calls(messages, m, p, acc) ==
    IF Len(acc) >= DOOM_LOOP_THRESHOLD \/ m = 0 THEN acc
    ELSE IF messages[m].role # "assistant" \/ p > Len(messages[m].parts)
    THEN recent_calls(messages, m - 1, 1, acc)
    ELSE LET tool_call == messages[m].parts[p]
         IN  recent_calls(messages, m, p + 1,
                 Append(acc, <<tool_call.tool_name, json_dumps(tool_call.input)>>))

_detect_doom_loop(messages) ==
    LET recent == recent_calls(messages, Len(messages), 1, <<>>)
    IN  IF Len(recent) < DOOM_LOOP_THRESHOLD THEN FALSE
        ELSE \A i \in 1..Len(recent) : recent[i] = recent[1]

-----------------------------------------------------------------------------
(* The interactive session: interactive_mode hands each user input to a    *)
(* new AgentLoop on the same Session, and AgentLoop.run steps through      *)
(* model calls and tool executions.                                        *)

MaxTurns == 2          \* user inputs of a session
MaxCalls == 2          \* tool calls the model requests in one response
MaxSessionCalls == 3   \* tool calls the model requests in a session

ToolCall(tool_name, input) == [tool_name |-> tool_name, input |-> input]

ls == <<"l", "s">>
a_env == <<"a", ".", "e", "n", "v">>

\* bash {"command": "ls", "description": "d"}
bashA == ToolCall(S_bash, << <<"command", ls>>, <<"description", <<"d">> >> >>)
\* bash {"description": "d", "command": "ls"}
bashA2 == ToolCall(S_bash, << <<"description", <<"d">> >>, <<"command", ls>> >>)
\* bash {"command": "ls", "description": "e"}
bashB == ToolCall(S_bash, << <<"command", ls>>, <<"description", <<"e">> >> >>)
\* bash {"raw": "x"}: the input of a call whose arguments were not valid JSON
bashRaw == ToolCall(S_bash, << <<"raw", <<"x">> >> >>)
\* edit {"file_path": "a.env", "old_string": "", "new_string": "x"}
editRel == ToolCall(S_edit, << <<"file_path", a_env>>, <<"old_string", <<>> >>,
                               <<"new_string", <<"x">> >> >>)
\* edit {"file_path": "/w/a.env", "old_string": "", "new_string": "x"}
editAbs == ToolCall(S_edit, << <<"file_path", working_dir \o <<"/">> \o a_env>>,
                               <<"old_string", <<>> >>, <<"new_string", <<"x">> >> >>)
\* read {"file_path": "a.env"}
readRel == ToolCall(S_read, << <<"file_path", a_env>> >>)
\* list {}
listNoPath == ToolCall(S_list, <<>>)
\* list {"path": "/w"}
listPath == ToolCall(S_list, << <<"path", working_dir>> >>)
\* glob {"pattern": "*"}
globStar == ToolCall(S_glob, << <<"pattern", Star>> >>)
\* ask_user {"questions": "q"}
askUser == ToolCall(S_ask_user, << <<"questions", <<"q">> >> >>)

\* task {}: a tool the registry does not hold
taskCall == ToolCall(<<"t", "a", "s", "k">>, <<>>)

(* What the model may request in a session: one repertoire per session,    *)
(* by the agent the session runs.                                          *)
BuildPools ==
    { {bashA, bashA2}, {bashA, bashB}, {editRel}, {editAbs, readRel},
      {listNoPath, listPath}, {globStar, askUser}, {bashRaw, taskCall} }

PlanPools == { {bashA, bashA2}, {editAbs, readRel}, {listPath, globStar} }

Pools(agent) == IF agent = "plan" THEN PlanPools ELSE BuildPools

\* The sessions in which model calls may fail: those with these repertoires.
FlakyPools == { {bashRaw, taskCall} }

\* The finish reason of a model response.
FinishReasons == {"stop", "tool_calls", "length"}

UserMessage(t) ==
    [role |-> "user", parts |-> <<>>, finish_reason |-> "None", error |-> "None",
     turn |-> t]

AssistantMessage(t, calls) ==
    [role |-> "assistant",
     parts |-> [i \in 1..Len(calls) |->
                  [tool_name |-> calls[i].tool_name, input |-> calls[i].input,
                   state |-> "pending", error |-> "None"]],
     finish_reason |-> "None", error |-> "None", turn |-> t]

\* the state recorded on every part of the last message at once
update_every_part(messages, i, state, error) ==
    [messages EXCEPT ![Len(messages)].parts =
        [k \in 1..Len(messages[Len(messages)].parts) |->
            [messages[Len(messages)].parts[k] EXCEPT !.state = state, !.error = error]]]

\* update_tool_part on the i-th part of the last message
update_tool_part(messages, i, state, error) ==
    [messages EXCEPT ![Len(messages)].parts[i].state = state,
                     ![Len(messages)].parts[i].error = error]

\* add_tool_part for each of the tool calls, on the last message
add_tool_parts(messages, calls) ==
    [messages EXCEPT ![Len(messages)].parts = AssistantMessage(0, calls).parts]

\* the while condition with the comparison off by one
may_step_once_more(s, max_steps) == s <= max_steps

\* run(), the while condition.  self.aborted is false whenever the head of
\* the loop is reached: a step that sets it returns from run().
may_step(s, max_steps) == s < max_steps

\* run() returning the last message as it is
Finished_unrecorded(messages, reason, error) == messages

\* run() returns the last message with this finish reason and error.
Finished(messages, reason, error) ==
    [messages EXCEPT ![Len(messages)].finish_reason = reason,
                     ![Len(messages)].error = error]

Init ==
    /\ agent_name \in AgentNames
    /\ pool \in Pools(agent_name)
    /\ budget = MaxSessionCalls
    /\ rules = <<>>
    /\ approved = <<>>
    /\ granted = {}
    /\ last = NoCall
    /\ session = <<>>
    /\ turn = 0
    /\ pc = "idle"
    /\ step = 0
    /\ finish_reason = "None"
    /\ idx = 0
    /\ returned = 0
    /\ provider = NoStream
    /\ assembler = NoAssembly
    /\ runner = NoRun
    /\ manager = NoStore

\* The pairs the user answered "always" to, as the approved list holds them.
Remembered(appr) ==
    {[permission |-> appr[i].permission, pattern |-> appr[i].pattern] : i \in 1..Len(appr)}

(* interactive_mode, one user input: a new PermissionManager with          *)
(* DEFAULT_RULES and the agent's rules, a new AgentLoop, and the start of  *)
(* run(): the user message and step = 0.                                   *)
NewTurn ==
    /\ pc = "idle"
    /\ turn < MaxTurns
    /\ turn' = turn + 1
    /\ rules' = merge_rules(DEFAULT_RULES, agent_config(agent_name).permissions)
    /\ approved' = <<>>
    /\ session' = Append(session, UserMessage(turn + 1))
    /\ step' = 0
    /\ pc' = "loop"
    /\ returned' = 0
    /\ finish_reason' = "None"
    /\ idx' = 0
    /\ granted' = granted \cup Remembered(approved)
    /\ last' = [op |-> "new_turn"]
    /\ UNCHANGED <<agent_name, pool, budget>>
    /\ UNCHANGED ioVars

(* run(), the head of the while loop: the step counter and the new         *)
(* assistant message, before the model is called.                          *)
BeginStep ==
    /\ pc = "loop"
    /\ may_step(step, agent_config(agent_name).max_steps)
    /\ step' = step + 1
    /\ session' = Append(session, AssistantMessage(turn, <<>>))
    /\ pc' = "stream"
    /\ last' = [op |-> "begin_step"]
    /\ UNCHANGED <<rules, approved, granted, agent_name, turn, finish_reason, idx,
                   returned, pool, budget>>
    /\ UNCHANGED ioVars

\* _process_stream, the stream consumed: the tool calls become the parts of
\* the message, in the order of their tool_call chunks.
EndStream(calls, reason) ==
    /\ Len(calls) <= budget
    /\ session' = add_tool_parts(session, calls)
    /\ finish_reason' = reason
    /\ budget' = budget - Len(calls)
    /\ idx' = 1
    /\ pc' = IF calls = <<>> THEN "after" ELSE "tools"
    /\ UNCHANGED <<rules, approved, granted, agent_name, turn, step, returned, pool>>
    /\ UNCHANGED ioVars

(* _process_stream up to the tool parts, a response of the model: its tool *)
(* calls and its finish reason.  A response with finish reason tool_calls  *)
(* carries a tool call.                                                    *)
Stream(calls, reason) ==
    /\ pc = "stream"
    /\ reason = "tool_calls" => calls # <<>>
    /\ last' = [op |-> "step"]
    /\ EndStream(calls, reason)

\* The answers to the prompt after a failed model call: retry, skip, abort.
ErrorActions == {"r", "s", "a"}

(* _process_stream, the provider ended the stream with finish reason error *)
(* after the tool calls it had streamed: the user is asked.  Retry calls   *)
(* _process_stream again for the same message, and the tool calls streamed *)
(* so far are dropped; skip returns error and abort returns aborted, both  *)
(* after the tool calls streamed so far were made parts and executed.      *)
StreamError(calls, action) ==
    /\ pc = "stream"
    /\ pool \in FlakyPools
    /\ last' = [op |-> "stream_error", action |-> action]
    /\ IF action = "r"
       THEN /\ calls = <<>>
            /\ UNCHANGED <<rules, approved, granted, agent_name, session, turn, pc,
                           step, finish_reason, idx, returned, pool, budget>>
            /\ UNCHANGED ioVars
       ELSE EndStream(calls, IF action = "s" THEN "error" ELSE "aborted")

\* every exception of a tool call taken for a permission failure
EveryError ==
    {"PermissionDeniedError", "PermissionRejectedError", "KeyError", "UnknownTool"}

\* The exceptions _execute_tools raises again.
PermissionErrors == {"PermissionDeniedError", "PermissionRejectedError"}

(* _execute_tools, the loop body for the idx-th tool call of the step up   *)
(* to the execution context: the tool is registered, the call is logged    *)
(* and marked running.                                                     *)
StartTool ==
    /\ pc = "tools"
    /\ session[Len(session)].parts[idx].state = "pending"
    /\ session[Len(session)].parts[idx].tool_name \in ToolNames
    /\ session' = update_tool_part(session, idx, "running", "None")
    /\ last' = [op |-> "start_tool", call |-> idx]
    /\ UNCHANGED <<rules, approved, granted, agent_name, turn, pc, step, finish_reason,
                   idx, returned, pool, budget>>
    /\ UNCHANGED ioVars

(* _execute_tools, the rest of the loop body for the idx-th tool call: for *)
(* a running call the early check and preapprove, tool.execute, the        *)
(* recorded state; for a tool the registry does not hold the error state.  *)
(* A permission error goes up to run(), which records it                   *)
(* on the message and returns.  The user answers the prompts of the call   *)
(* with r1 and r2: a call shows at most the n prompts it shows when each   *)
(* is answered "y", and "y" stands for an answer that is not asked for.    *)
ExecuteTool ==
    /\ pc = "tools"
    /\ \/ session[Len(session)].parts[idx].state = "running"
       \/ session[Len(session)].parts[idx].tool_name \notin ToolNames
    /\ \E tc \in {session[Len(session)].parts[idx]} :
       \E n \in {Len(run_tool(rules, approved, tc, <<"y", "y">>).prompts)} :
       \E r1 \in IF n >= 1 THEN Responses ELSE {"y"} :
       \E r2 \in IF n >= 2 THEN Responses ELSE {"y"} :
       \E out \in {run_tool(rules, approved, tc, <<r1, r2>>)} :
       \E updated \in {update_tool_part(session, idx,
                            IF out.raised = "none" THEN "completed" ELSE "error",
                            IF out.raised = "none" THEN "None" ELSE out.raised)} :
           /\ Len(out.prompts) < 2 => r2 = "y"
           /\ approved' = out.approved
           /\ last' = [op |-> "execute_tool", tool_name |-> tc.tool_name, call |-> idx,
                       prechecked |-> out.prechecked, started |-> out.started,
                       raised |-> out.raised, prompts |-> out.prompts]
           /\ IF out.raised \in PermissionErrors
              THEN /\ session' =
                        IF out.raised = "PermissionDeniedError"
                        THEN Finished(updated, "error", out.raised)
                        ELSE Finished(updated, "stopped", "None")
                   /\ returned' = Len(session)
                   /\ pc' = "idle"
                   /\ idx' = 0
              ELSE /\ session' = updated
                   /\ returned' = returned
                   /\ pc' = IF idx < Len(updated[Len(updated)].parts)
                            THEN "tools" ELSE "after"
                   /\ idx' = IF idx < Len(updated[Len(updated)].parts)
                             THEN idx + 1 ELSE 0
    /\ UNCHANGED <<rules, granted, agent_name, turn, step, finish_reason, pool, budget>>
    /\ UNCHANGED ioVars

(* The end of a step: the end of _process_stream (a stop with tool calls   *)
(* becomes tool_calls) and run() after it: the finish reason goes on the   *)
(* message; any reason but tool_calls returns; otherwise a detected doom   *)
(* loop is put to permission.check("doom_loop", ["*"]), answered by r.     *)
AfterStep ==
    /\ pc = "after"
    /\ \E reason \in {IF session[Len(session)].parts # <<>> /\ finish_reason = "stop"
                      THEN "tool_calls" ELSE finish_reason} :
       \E detected \in {reason = "tool_calls" /\ _detect_doom_loop(session)} :
       \E r \in IF detected THEN Responses ELSE {"y"} :
       \E doom \in {IF detected
                    THEN check(rules, approved, S_doom_loop, <<Star>>, <<r>>)
                    ELSE NoCheck(approved)} :
       \E prompts \in {Prompts(S_doom_loop, doom.trace, "loop")} :
           /\ prompts = <<>> => r = "y"
           /\ finish_reason' = reason
           /\ session' =
                IF doom.raised = "PermissionRejectedError"
                THEN Finished(session, "stopped", "None")
                ELSE IF doom.raised = "PermissionDeniedError"
                THEN Finished(session, "error", doom.raised)
                ELSE Finished(session, reason, "None")
           /\ approved' = doom.approved
           /\ returned' = IF reason # "tool_calls" \/ doom.raised # "none"
                          THEN Len(session) ELSE returned
           /\ pc' = IF reason # "tool_calls" \/ doom.raised # "none"
                    THEN "idle" ELSE "loop"
           /\ last' = [op |-> "after_step", reason |-> reason, detected |-> detected,
                       action |-> IF detected THEN doom.trace[1].action ELSE "-",
                       prompts |-> prompts]
    /\ UNCHANGED <<rules, granted, agent_name, turn, step, idx, pool, budget>>
    /\ UNCHANGED ioVars

(* run(), the while condition false: the step limit is reached and the     *)
(* last assistant message is returned as it is.                            *)
MaxStepsReached ==
    /\ pc = "loop"
    /\ ~may_step(step, agent_config(agent_name).max_steps)
    /\ returned' = Len(session)
    /\ pc' = "idle"
    /\ last' = [op |-> "max_steps_reached"]
    /\ UNCHANGED <<rules, approved, granted, agent_name, session, turn, step,
                   finish_reason, idx, pool, budget>>
    /\ UNCHANGED ioVars

Next ==
    \/ NewTurn
    \/ BeginStep
    \/ \E calls \in SeqsUpTo(pool, MaxCalls), reason \in FinishReasons : Stream(calls, reason)
    \/ \E calls \in SeqsUpTo(pool, MaxCalls), action \in ErrorActions :
           StreamError(calls, action)
    \/ StartTool
    \/ ExecuteTool
    \/ AfterStep
    \/ MaxStepsReached

Spec == Init /\ [][Next]_vars

\* The user answers the prompt after a failed model call with retry.
Retry == StreamError(<<>>, "r")

\* Every step of a running turn but the retry of a failed model call.
RunOn ==
    \/ BeginStep
    \/ \E calls \in SeqsUpTo(pool, MaxCalls), reason \in FinishReasons : Stream(calls, reason)
    \/ \E calls \in SeqsUpTo(pool, MaxCalls), action \in ErrorActions \ {"r"} :
           StreamError(calls, action)
    \/ StartTool
    \/ ExecuteTool
    \/ AfterStep
    \/ MaxStepsReached

(* The sessions when every provider stream is finite, every tool execution  *)
(* and every prompt comes back, and the user does not answer retry for     *)
(* ever: a running turn does not stand still.                              *)
\* The sessions in which model calls may fail.
LiveInit == Init /\ pool \in FlakyPools

LiveSpec == LiveInit /\ [][Next]_vars /\ WF_vars(RunOn)

-----------------------------------------------------------------------------
(* The permission engine on its own: a manager built with any configured   *)
(* rule list, on which evaluate and check are then called.                 *)

MaxRules == 2       \* configured rules of a manager
MaxApproved == 1    \* "always" answers a manager remembers
MaxTargets == 2     \* patterns passed to one check call

Scopes == {S_bash, S_edit}
\* "a", "a*", "a?", "[a]": a plain target and targets holding glob characters
Targets == {<<"a">>, <<"a", "*">>, <<"a", "?">>, <<"[", "a", "]">>}
\* (*, *) matches every request; (bash, a*) matches bash with "a", "a*", "a?"
RuleDomain ==
    {PermissionRule(Star, Star, a) : a \in PermissionAction}
    \cup {PermissionRule(S_bash, <<"a", "*">>, a) : a \in PermissionAction}

\* No agent loop runs on the manager.
NoLoop ==
    /\ agent_name = "build"
    /\ session = <<>>
    /\ turn = 0
    /\ pc = "idle"
    /\ step = 0
    /\ finish_reason = "None"
    /\ idx = 0
    /\ returned = 0
    /\ pool = {}
    /\ budget = 0
    /\ provider = NoStream
    /\ assembler = NoAssembly
    /\ runner = NoRun
    /\ manager = NoStore

PermInit ==
    /\ rules \in SeqsUpTo(RuleDomain, MaxRules)
    /\ approved = <<>>
    /\ granted = {}
    /\ last = NoCall
    /\ NoLoop

\* The (permission, pattern) pairs the user answered "always" to in a check call.
Granted(permission, trace) ==
    {[permission |-> permission, pattern |-> trace[i].pattern] :
        i \in {k \in 1..Len(trace) : trace[k].response = "always"}}

\* evaluate(permission, pattern)
Evaluate(permission, pattern) ==
    /\ last' = [op |-> "evaluate", permission |-> permission, pattern |-> pattern,
                action |-> evaluate(rules, approved, permission, pattern)]
    /\ UNCHANGED <<rules, approved, granted>>
    /\ UNCHANGED loopVars
    /\ UNCHANGED ioVars

\* await check(permission, [pattern]), the user answering a prompt with response.
\* last records whether the user had answered "always" to this pair before the
\* call, and whether the call invoked the callback.
CheckOne(permission, pattern, response) ==
    LET r == check(rules, approved, permission, <<pattern>>, <<response>>)
    IN  /\ Len(r.approved) <= MaxApproved
        /\ approved' = r.approved
        /\ granted' = granted \cup Granted(permission, r.trace)
        /\ last' = [op |-> "check_one",
                    before |-> [permission |-> permission, pattern |-> pattern] \in granted,
                    prompted |-> r.trace[1].response # "-"]
        /\ UNCHANGED rules
        /\ UNCHANGED loopVars
        /\ UNCHANGED ioVars

PermNext ==
    \/ \E permission \in Scopes, pattern \in Targets : Evaluate(permission, pattern)
    \/ \E permission \in Scopes, pattern \in Targets, response \in Responses :
           CheckOne(permission, pattern, response)

PermSpec == PermInit /\ [][PermNext]_vars

-----------------------------------------------------------------------------
(* One check call with several patterns on a freshly built manager.        *)

MaxCheckRules == 1  \* configured rules of the manager check is called on

CheckInit ==
    /\ rules \in SeqsUpTo(RuleDomain, MaxCheckRules)
    /\ approved = <<>>
    /\ granted = {}
    /\ last = NoCall
    /\ NoLoop

\* await check(permission, patterns), the user answering the prompts with responses
Check(permission, patterns, responses) ==
    LET r == check(rules, approved, permission, patterns, responses)
    IN  /\ last = NoCall
        /\ approved' = r.approved
        /\ granted' = granted \cup Granted(permission, r.trace)
        /\ last' = [op |-> "check", permission |-> permission, patterns |-> patterns,
                    raised |-> r.raised, trace |-> r.trace]
        /\ UNCHANGED rules
        /\ UNCHANGED loopVars
        /\ UNCHANGED ioVars

CheckNext ==
    \E permission \in Scopes, patterns \in SeqsUpTo(Targets, MaxTargets) :
        \E responses \in [1..Len(patterns) -> Responses] :
            /\ patterns # <<>>
            /\ Check(permission, patterns, responses)

CheckSpec == CheckInit /\ [][CheckNext]_vars

-----------------------------------------------------------------------------
(* _detect_doom_loop on its own: a session as run() finds it when it calls *)
(* the detection (the last message is the assistant message of a step that *)
(* requested tool calls), and the call.                                    *)

MaxMessages == 3    \* messages of the session
MaxParts == 2       \* tool calls of one assistant message

DetectCalls == {bashA, bashA2, bashB, listNoPath}

MessageShapes ==
    {[role |-> "user", calls |-> <<>>]}
    \cup {[role |-> "assistant", calls |-> cs] : cs \in SeqsUpTo(DetectCalls, MaxParts)}

(* The message sequences a session goes through: a turn is a user message  *)
(* followed by at least one assistant message, and an assistant message    *)
(* without tool calls ends its turn.  The last message is a step with tool *)
(* calls.                                                                  *)
WellFormed(shape) ==
    /\ shape # <<>>
    /\ shape[1].role = "user"
    /\ shape[Len(shape)].role = "assistant"
    /\ shape[Len(shape)].calls # <<>>
    /\ \A i \in 1..(Len(shape) - 1) :
          /\ shape[i].role = "user" => shape[i + 1].role = "assistant"
          /\ (shape[i].role = "assistant" /\ shape[i].calls = <<>>)
                => shape[i + 1].role = "user"

\* The session of a shape: the turns numbered, the executed calls completed.
SessionOf(shape) ==
    [i \in 1..Len(shape) |->
        LET t == Cardinality({j \in 1..i : shape[j].role = "user"})
            m == AssistantMessage(t, shape[i].calls)
        IN  IF shape[i].role = "user" THEN UserMessage(t)
            ELSE [m EXCEPT !.finish_reason = IF shape[i].calls = <<>> THEN "stop"
                                             ELSE "tool_calls",
                           !.parts = [p \in 1..Len(m.parts) |->
                                        [m.parts[p] EXCEPT !.state = "completed"]]]]

DetectInit ==
    /\ \E shape \in {sh \in SeqsUpTo(MessageShapes, MaxMessages) : WellFormed(sh)} :
          /\ session = SessionOf(shape)
          /\ turn = Cardinality({j \in 1..Len(shape) : shape[j].role = "user"})
          /\ step = Cardinality({j \in 1..Len(shape) :
                                    \A k \in j..Len(shape) : shape[k].role = "assistant"})
    /\ agent_name \in AgentNames
    /\ rules = merge_rules(DEFAULT_RULES, agent_config(agent_name).permissions)
    /\ approved = <<>>
    /\ granted = {}
    /\ last = NoCall
    /\ pc = "after"
    /\ finish_reason = "tool_calls"
    /\ idx = 0
    /\ returned = 0
    /\ pool = DetectCalls
    /\ budget = 0
    /\ provider = NoStream
    /\ assembler = NoAssembly
    /\ runner = NoRun
    /\ manager = NoStore

Detect ==
    /\ last = NoCall
    /\ last' = [op |-> "detect", result |-> _detect_doom_loop(session)]
    /\ UNCHANGED <<rules, approved, granted>>
    /\ UNCHANGED loopVars
    /\ UNCHANGED ioVars

DetectNext == Detect

DetectSpec == DetectInit /\ [][DetectNext]_vars

-----------------------------------------------------------------------------
(* The retry loops: the providers' stream() (src/src/llm/openai.py,        *)
(* anthropic.py and deepseek.py carry the same loop) and retry_async       *)
(* (src/src/errors.py).  Delays are whole seconds.                         *)

MaxRetries == 7  \* the largest max_retries configured

RECURSIVE Pow(_, _)
Pow(b, n) == IF n = 0 THEN 1 ELSE b * Pow(b, n - 1)

Min2(a, b) == IF a <= b THEN a ELSE b
Max2(a, b) == IF a >= b THEN a ELSE b

\* x in s, for two str
contains(s, x) ==
    \E i \in 0..(Len(s) - Len(x)) : SubSeq(s, i + 1, i + Len(x)) = x

Uppercase ==
    <<"A", "B", "C", "D", "E", "F", "G", "H", "I", "J", "K", "L", "M", "N",
      "O", "P", "Q", "R", "S", "T", "U", "V", "W", "X", "Y", "Z">>
Lowercase ==
    <<"a", "b", "c", "d", "e", "f", "g", "h", "i", "j", "k", "l", "m", "n",
      "o", "p", "q", "r", "s", "t", "u", "v", "w", "x", "y", "z">>

\* str.lower()
lower(s) ==
    [i \in 1..Len(s) |->
        IF \E k \in 1..Len(Uppercase) : Uppercase[k] = s[i]
        THEN Lowercase[CHOOSE k \in 1..Len(Uppercase) : Uppercase[k] = s[i]]
        ELSE s[i]]

\* The keywords that make a failure retryable in stream().
RetryableKeywords ==
    { <<"t", "i", "m", "e", "o", "u", "t">>, <<"c", "o", "n", "n", "e", "c",
      "t", "i", "o", "n">>, <<"n", "e", "t", "w", "o", "r", "k">>, <<"r",
      "a", "t", "e">>, <<"4", "2", "9">>,
      <<"5", "0", "0">>, <<"5", "0", "2">>, <<"5", "0", "3">>, <<"5", "0",
        "4">>, <<"o", "v", "e", "r", "l", "o", "a", "d", "e", "d">> }

S_rate == <<"r", "a", "t", "e">>
S_429 == <<"4", "2", "9">>

\* every failure taken for retryable
retryable_whatever(last_error) == TRUE

\* retryable = any(keyword in error_lower for keyword in [...])
retryable(last_error) ==
    \E keyword \in RetryableKeywords : contains(lower(last_error), keyword)

\* "rate" in error_lower or "429" in last_error
rate_limited(last_error) ==
    contains(lower(last_error), S_rate) \/ contains(last_error, S_429)

\* The messages of the exceptions a model call raises.
ConnectionErrorText ==
    <<"C", "o", "n", "n", "e", "c", "t", "i", "o", "n", " ", "e", "r", "r",
      "o", "r", ".">>
RateLimitText ==
    <<"R", "a", "t", "e", " ", "l", "i", "m", "i", "t", " ", "r", "e", "a",
      "c", "h", "e", "d">>
TooManyRequestsText == <<"E", "r", "r", "o", "r", " ", "c", "o", "d", "e", ":", " ", "4", "2", "9">>
ApiKeyText ==
    <<"I", "n", "c", "o", "r", "r", "e", "c", "t", " ", "A", "P", "I", " ",
      "k", "e", "y">>
TimedOutText ==
    <<"R", "e", "q", "u", "e", "s", "t", " ", "t", "i", "m", "e", "d", " ",
      "o", "u", "t", ".">>
Messages ==
    {ConnectionErrorText, RateLimitText, TooManyRequestsText, ApiKeyText, TimedOutText}

\* LLMConfig
LLMConfig(max_retries, retry_delay) ==
    [max_retries |-> max_retries, retry_delay |-> retry_delay]

\* RetryConfig, with its default retryable_exceptions
RetryConfig(max_retries, initial_delay, max_delay, exponential_base) ==
    [max_retries |-> max_retries, initial_delay |-> initial_delay,
     max_delay |-> max_delay, exponential_base |-> exponential_base,
     retryable_exceptions |-> {"LLMNetworkError", "LLMTimeoutError", "LLMRateLimitError",
                               "ConnectionError", "TimeoutError"}]

DEFAULT_RETRY_CONFIG == RetryConfig(3, 1, 60, 2)

\* the retry test that gives up one attempt early
may_retry_once_less(attempt, max_retries) == attempt + 1 < max_retries

\* attempt < max_retries, the test both loops make before they wait and retry
may_retry(attempt, max_retries) == attempt < max_retries

\* StreamChunk, by its type; a finish chunk carries the finish reason.
ErrorChunk == [type |-> "error", finish_reason |-> "None"]
FinishChunk(reason) == [type |-> "finish", finish_reason |-> reason]

\* The last two of the chunks yielded, after chunk was yielded.
Yield(tail, chunk) ==
    IF Len(tail) < 2 THEN Append(tail, chunk) ELSE <<tail[2], chunk>>

(* What one attempt of stream() meets: the stream runs to its finish       *)
(* chunk; the connection times out (asyncio.TimeoutError); the call or the *)
(* stream raises an exception with a message; a chunk arrives more than 60 *)
(* seconds after the one before; the stream ends without a finish chunk.   *)
Outcomes ==
    {[kind |-> "finish", message |-> <<>>, reason |-> r] : r \in FinishReasons}
    \cup {[kind |-> k, message |-> <<>>, reason |-> "None"] : k \in {"timeout", "stall", "eof"}}
    \cup {[kind |-> "raise", message |-> m, reason |-> "None"] : m \in Messages}

\* The configurations the loops are run with.
LLMConfigs == {LLMConfig(n, 1) : n \in 0..MaxRetries}
RetryConfigs == {RetryConfig(n, 1, m, 2) : n \in 0..MaxRetries, m \in {8, 60}}

\* A retry loop at its first attempt.
Started(path, config) ==
    [pc |-> "running", path |-> path, config |-> config, attempt |-> 0,
     tail |-> <<>>, transient |-> TRUE, result |-> "none"]

\* continue: the next attempt, after an attempt that failed
Continue(p, tail, transient) ==
    [p EXCEPT !.attempt = p.attempt + 1, !.tail = tail,
              !.transient = p.transient /\ transient]

\* return: the loop is left
Return(p, tail, result) ==
    [p EXCEPT !.pc = "done", !.attempt = p.attempt + 1, !.tail = tail,
              !.transient = p.transient /\ result = "error", !.result = result]

\* What an attempt did: the loop afterwards, whether it waits and retries,
\* and the delay it waits.
Attempted(p, retried, delay) == [provider |-> p, retried |-> retried, delay |-> delay]

\* the yields after the for loop: every attempt was used up
Exhausted(p) ==
    Return(p, Yield(Yield(p.tail, ErrorChunk), FinishChunk("error")), "error")

RATE_LIMIT_FLOOR == 10

\* delay = retry_delay * (2 ** attempt), and max(delay, 10.0) for a rate limit
stream_delay(config, attempt, last_error) ==
    IF rate_limited(last_error)
    THEN Max2(config.retry_delay * Pow(2, attempt), RATE_LIMIT_FLOOR)
    ELSE config.retry_delay * Pow(2, attempt)

\* One pass of the for loop of stream(), the attempt meeting event.
stream_attempt(p, event) ==
    CASE event.kind = "finish" ->
           Attempted(Return(p, Yield(p.tail, FinishChunk(event.reason)), "finished"),
                     FALSE, 0)
      [] event.kind = "stall" ->
           Attempted(Return(p, Yield(p.tail, ErrorChunk), "stalled"), FALSE, 0)
      [] event.kind = "eof" ->
           IF may_retry(p.attempt, p.config.max_retries)
           THEN Attempted(Continue(p, p.tail, FALSE), FALSE, 0)
           ELSE Attempted([Exhausted(p) EXCEPT !.transient = FALSE], FALSE, 0)
      [] event.kind = "timeout" ->
           IF may_retry(p.attempt, p.config.max_retries)
           THEN Attempted(Continue(p, Yield(p.tail, ErrorChunk), TRUE), TRUE,
                          p.config.retry_delay * Pow(2, p.attempt))
           ELSE Attempted(Exhausted(p), FALSE, 0)
      [] event.kind = "raise" ->
           IF retryable(event.message) /\ may_retry(p.attempt, p.config.max_retries)
           THEN Attempted(Continue(p, Yield(p.tail, ErrorChunk), TRUE), TRUE,
                          stream_delay(p.config, p.attempt, event.message))
           ELSE Attempted([Exhausted(p) EXCEPT
                              !.transient = p.transient /\ retryable(event.message)],
                          FALSE, 0)

\* finish_reason of _process_stream for the chunks of a stream: "stop" until
\* a finish chunk sets it.
finish_reason_of(tail) ==
    IF tail # <<>> /\ tail[Len(tail)].type = "finish"
    THEN tail[Len(tail)].finish_reason
    ELSE "stop"

\* The exceptions func raises in retry_async; retry_after 0 stands for None.
LLMError(class, message, retry_after) ==
    [kind |-> "raise", class |-> class, message |-> message, retry_after |-> retry_after]

FuncOutcomes ==
    {[kind |-> "return", class |-> "None", message |-> <<>>, retry_after |-> 0]}
    \cup {LLMError("LLMNetworkError", ConnectionErrorText, 0),
          LLMError("LLMTimeoutError", TimedOutText, 0),
          LLMError("LLMAPIError", ApiKeyText, 0)}
    \cup {LLMError("LLMRateLimitError", RateLimitText, a) : a \in {0, 2, 30}}

\* the delay retry_async computes
retry_delay(config, attempt, e) ==
    IF e.class = "LLMRateLimitError" /\ e.retry_after # 0
    THEN e.retry_after
    ELSE Min2(config.initial_delay * Pow(config.exponential_base, attempt),
              config.max_delay)

\* One pass of the for loop of retry_async, func doing event.
retry_async_attempt(p, event) ==
    IF event.kind = "return"
    THEN Attempted(Return(p, p.tail, "returned"), FALSE, 0)
    ELSE IF event.class \notin p.config.retryable_exceptions
    THEN Attempted(Return(p, p.tail, "raised"), FALSE, 0)
    ELSE IF ~may_retry(p.attempt, p.config.max_retries)
    THEN Attempted([Return(p, p.tail, "raised") EXCEPT !.transient = p.transient],
                   FALSE, 0)
    ELSE Attempted(Continue(p, p.tail, TRUE), TRUE,
                   retry_delay(p.config, p.attempt, event))

RetryInit ==
    /\ rules = <<>>
    /\ approved = <<>>
    /\ granted = {}
    /\ last = NoCall
    /\ NoLoop

\* provider.stream(...) is called
StreamCall(config) ==
    /\ provider.pc = "idle"
    /\ provider' = Started("stream", config)
    /\ last' = [op |-> "call", path |-> "stream"]
    /\ UNCHANGED <<rules, approved, granted, assembler, runner, manager>>
    /\ UNCHANGED loopVars

\* retry_async(func, config) is called
RetryAsyncCall(config) ==
    /\ provider.pc = "idle"
    /\ provider' = Started("retry_async", config)
    /\ last' = [op |-> "call", path |-> "retry_async"]
    /\ UNCHANGED <<rules, approved, granted, assembler, runner, manager>>
    /\ UNCHANGED loopVars

\* One attempt of the running loop, with the wait that follows it.
Attempt(path, event) ==
    /\ provider.pc = "running"
    /\ provider.path = path
    /\ \E a \in {IF path = "stream" THEN stream_attempt(provider, event)
                 ELSE retry_async_attempt(provider, event)} :
          /\ provider' = a.provider
          /\ last' = [op |-> "attempt", path |-> path, n |-> provider.attempt,
                      event |-> event, retried |-> a.retried, delay |-> a.delay]
    /\ UNCHANGED <<rules, approved, granted, assembler, runner, manager>>
    /\ UNCHANGED loopVars

RetryNext ==
    \/ \E config \in LLMConfigs : StreamCall(config)
    \/ \E config \in RetryConfigs : RetryAsyncCall(config)
    \/ \E event \in Outcomes : Attempt("stream", event)
    \/ \E event \in FuncOutcomes : Attempt("retry_async", event)

RetrySpec == RetryInit /\ [][RetryNext]_vars

-----------------------------------------------------------------------------
(* The streaming assembler: _process_stream consuming the tool_call and    *)
(* tool_call_delta chunks of one stream, and the parse of the accumulated  *)
(* argument strings after the stream (src/src/loop.py 197, 226-253,        *)
(* 336-347).                                                               *)

MaxFragments == 3  \* tool_call_delta chunks streamed for one tool call

S_raw == <<"r", "a", "w">>
Quote == "\""

\* The position of the first quote of s at or after i, 0 when there is none.
RECURSIVE FindQuote(_, _)
FindQuote(s, i) ==
    IF i > Len(s) THEN 0
    ELSE IF s[i] = Quote THEN i
    ELSE FindQuote(s, i + 1)

\* d[k] = v on a dict held as a sequence of <<key, value>> pairs
SetKey(d, k, v) ==
    IF Has(d, k)
    THEN [i \in 1..Len(d) |-> IF d[i][1] = k THEN <<k, v>> ELSE d[i]]
    ELSE Append(d, <<k, v>>)

NotJSON == [ok |-> FALSE, value |-> <<>>]

\* The members of an object from position i of s on: "key":"value" pairs
\* separated by commas, closed by the brace that ends s.  kq, vo and vq are
\* the closing quote of the key, the opening and the closing quote of the
\* value.
RECURSIVE ParseMembers(_, _, _)
ParseValue(s, i, d, kq, vo, vq) ==
    IF vq = 0 \/ vq = Len(s) THEN NotJSON
    ELSE IF s[vq + 1] = "}"
    THEN IF vq + 1 = Len(s)
         THEN [ok |-> TRUE,
               value |-> SetKey(d, SubSeq(s, i + 1, kq - 1), SubSeq(s, vo + 1, vq - 1))]
         ELSE NotJSON
    ELSE IF s[vq + 1] = ","
    THEN ParseMembers(s, vq + 2,
                      SetKey(d, SubSeq(s, i + 1, kq - 1), SubSeq(s, vo + 1, vq - 1)))
    ELSE NotJSON

ParseKey(s, i, d, kq) ==
    IF kq = 0 \/ kq + 2 > Len(s) THEN NotJSON
    ELSE IF s[kq + 1] # ":" \/ s[kq + 2] # Quote THEN NotJSON
    ELSE ParseValue(s, i, d, kq, kq + 2, FindQuote(s, kq + 3))

ParseMembers(s, i, d) ==
    IF i > Len(s) THEN NotJSON
    ELSE IF s[i] # Quote THEN NotJSON
    ELSE ParseKey(s, i, d, FindQuote(s, i + 1))

(* json.loads on the argument texts met here: an object of string members  *)
(* written without white space and without escapes.  Every other text met  *)
(* here, a proper prefix of such an object, is not JSON.                   *)
json_loads(s) ==
    IF Len(s) < 2 THEN NotJSON
    ELSE IF s[1] # "{" THEN NotJSON
    ELSE IF s[2] = "}" THEN (IF Len(s) = 2 THEN [ok |-> TRUE, value |-> <<>>] ELSE NotJSON)
    ELSE ParseMembers(s, 2, <<>>)

\* The argument texts the model streams.
EmptyObjectText == <<"{", "}">>
OneMemberText == <<"{", "\"", "a", "\"", ":", "\"", "b", "\"", "}">>
SameKeyText == <<"{", "\"", "a", "\"", ":", "\"", "b", "\"", ",", "\"", "a", "\"", ":", "\"", "c", "\"", "}">>
Texts == {EmptyObjectText, OneMemberText, SameKeyText}

\* The ids of the tool calls of one stream, and an id no tool_call chunk
\* announces.
CallIds == {"call_1", "call_2"}
NoCallId == "None"

\* ToolCall(id, tool_name, input={}, state=PENDING); has_args_str and
\* _args_str are the attribute the delta chunks add to it.
PendingCall(id, tool_name) ==
    [id |-> id, tool_name |-> tool_name, input |-> <<>>,
     has_args_str |-> FALSE, _args_str |-> <<>>]

\* chunk.tool_call_id in tool_calls
Registered(tool_calls, id) == \E i \in 1..Len(tool_calls) : tool_calls[i].id = id

\* tool_calls[chunk.tool_call_id] = ToolCall(...)
on_tool_call(tool_calls, id, tool_name) ==
    IF Registered(tool_calls, id)
    THEN [i \in 1..Len(tool_calls) |->
            IF tool_calls[i].id = id THEN PendingCall(id, tool_name) ELSE tool_calls[i]]
    ELSE Append(tool_calls, PendingCall(id, tool_name))

\* the fragment appended to the call announced last, whatever its id
on_tool_call_delta_to_last(tool_calls, id, tool_args_delta) ==
    [i \in 1..Len(tool_calls) |->
        IF i = Len(tool_calls)
        THEN [tool_calls[i] EXCEPT !.has_args_str = TRUE,
                                   !._args_str = tool_calls[i]._args_str \o tool_args_delta]
        ELSE tool_calls[i]]

\* tc._args_str += chunk.tool_args_delta or "", for a registered id
on_tool_call_delta(tool_calls, id, tool_args_delta) ==
    [i \in 1..Len(tool_calls) |->
        IF tool_calls[i].id = id
        THEN [tool_calls[i] EXCEPT !.has_args_str = TRUE,
                                   !._args_str = tool_calls[i]._args_str \o tool_args_delta]
        ELSE tool_calls[i]]

\* the input left empty when json.loads fails
parse_args_or_nothing(tc, parsed) ==
    [tc EXCEPT !.input = parsed.value, !.has_args_str = FALSE, !._args_str = <<>>]

\* tc.input = json.loads(tc._args_str), {"raw": tc._args_str} when that
\* fails; delattr(tc, "_args_str")
parse_args(tc, parsed) ==
    IF ~tc.has_args_str THEN tc
    ELSE [tc EXCEPT !.input = IF parsed.ok THEN parsed.value
                              ELSE << <<S_raw, tc._args_str>> >>,
                    !.has_args_str = FALSE, !._args_str = <<>>]

\* What the provider streams for one tool call: whether its tool_call chunk
\* went out, its argument text, how much of the text went out in how many
\* fragments.
Unannounced == [announced |-> FALSE, text |-> <<>>, pos |-> 0, fragments |-> 0]

\* The fragments of the call that went out so far, concatenated in order.
Sent(script, id) == SubSeq(script[id].text, 1, script[id].pos)

AssembleInit ==
    /\ rules = <<>>
    /\ approved = <<>>
    /\ granted = {}
    /\ last = NoCall
    /\ agent_name = "build"
    /\ session = <<>>
    /\ turn = 0
    /\ pc = "idle"
    /\ step = 0
    /\ finish_reason = "None"
    /\ idx = 0
    /\ returned = 0
    /\ pool = {}
    /\ budget = 0
    /\ provider = NoStream
    /\ assembler = [pc |-> "streaming", tool_calls |-> <<>>,
                    script |-> [id \in CallIds |-> Unannounced],
                    prev |-> NoCallId, interleaved |-> FALSE]
    /\ runner = NoRun
    /\ manager = NoStore

\* chunk.type == "tool_call": a new tool call, with the text it will stream
ToolCallChunk(id, text) ==
    /\ assembler.pc = "streaming"
    /\ ~assembler.script[id].announced
    /\ assembler' =
         [assembler EXCEPT
            !.tool_calls = on_tool_call(assembler.tool_calls, id, S_bash),
            !.script[id] = [Unannounced EXCEPT !.announced = TRUE, !.text = text]]
    /\ last' = [op |-> "chunk", type |-> "tool_call"]
    /\ UNCHANGED <<rules, approved, granted, provider, runner, manager>>
    /\ UNCHANGED loopVars

\* chunk.type == "tool_call_delta": the next k characters of the call's text
ToolCallDelta(id, k) ==
    /\ assembler.pc = "streaming"
    /\ assembler.script[id].announced
    /\ assembler.script[id].fragments < MaxFragments
    /\ assembler.script[id].pos + k <= Len(assembler.script[id].text)
    /\ assembler' =
         [assembler EXCEPT
            !.tool_calls =
                on_tool_call_delta(assembler.tool_calls, id,
                    SubSeq(assembler.script[id].text, assembler.script[id].pos + 1,
                           assembler.script[id].pos + k)),
            !.script[id].pos = assembler.script[id].pos + k,
            !.script[id].fragments = assembler.script[id].fragments + 1,
            !.prev = id,
            !.interleaved = \/ assembler.interleaved
                            \/ /\ assembler.prev \notin {id, NoCallId}
                               /\ assembler.script[id].fragments > 0]
    /\ last' = [op |-> "chunk", type |-> "tool_call_delta"]
    /\ UNCHANGED <<rules, approved, granted, provider, runner, manager>>
    /\ UNCHANGED loopVars

\* chunk.type == "tool_call_delta" with an id that is not in tool_calls
StrayDelta(id, fragment) ==
    /\ assembler.pc = "streaming"
    /\ ~Registered(assembler.tool_calls, id)
    /\ assembler' =
         [assembler EXCEPT
            !.tool_calls = on_tool_call_delta(assembler.tool_calls, id, fragment)]
    /\ last' = [op |-> "chunk", type |-> "stray_delta"]
    /\ UNCHANGED <<rules, approved, granted, provider, runner, manager>>
    /\ UNCHANGED loopVars

\* The stream ends: the accumulated argument strings are parsed.
FinishChunks ==
    /\ assembler.pc = "streaming"
    /\ assembler' =
         [assembler EXCEPT
            !.pc = "done",
            !.tool_calls =
                [i \in 1..Len(assembler.tool_calls) |->
                    parse_args(assembler.tool_calls[i],
                               json_loads(assembler.tool_calls[i]._args_str))]]
    /\ last' = [op |-> "chunk", type |-> "finish"]
    /\ UNCHANGED <<rules, approved, granted, provider, runner, manager>>
    /\ UNCHANGED loopVars

AssembleNext ==
    \/ \E id \in CallIds, text \in Texts : ToolCallChunk(id, text)
    \/ \E id \in CallIds :
          \E k \in 0..Len(assembler.script[id].text) : ToolCallDelta(id, k)
    \/ \E id \in CallIds \cup {NoCallId} : StrayDelta(id, <<"{">>)
    \/ FinishChunks

AssembleSpec == AssembleInit /\ [][AssembleNext]_vars

-----------------------------------------------------------------------------
(* A turn run through an entry path: interactive_mode (src/main.py         *)
(* 415-447) or run_agent (src/src/loop.py 725-779) calling AgentLoop.run,  *)
(* with the text of the response, cancellation (asyncio.CancelledError at  *)
(* an await that suspends), exceptions, the status task of a tool          *)
(* execution, the message list sent to the model and the saving of the     *)
(* session.  The permission engine and the doom-loop check are those of    *)
(* Spec; here a permission check only has an outcome, and a session holds  *)
(* fewer tool calls than the doom-loop check needs.                        *)

MaxRunSteps == 2     \* agent.max_steps of the agent of these turns
MaxRunTurns == 2     \* turns run on the session
MaxTextChunks == 2   \* text chunks of one model call
MaxRunCalls == 2     \* tool calls of the session, below DOOM_LOOP_THRESHOLD
MaxPrompts == 1      \* answers r to the retry prompt in one step
MaxModelCalls == 2   \* model calls made for the session

S_file_path == <<"f", "i", "l", "e", "_", "p", "a", "t", "h">>
S_command == <<"c", "o", "m", "m", "a", "n", "d">>
ReadArgsText == <<"{", "\"", "f", "i", "l", "e", "_", "p", "a", "t", "h", "\"", ":", "\"", "a", "\"", "}">>
BashArgsText == <<"{", "\"", "c", "o", "m", "m", "a", "n", "d", "\"", ":", "\"", "l", "s", "\"", "}">>
CutArgsText == <<"{", "\"", "f", "i", "l", "e", "_", "p", "a", "t", "h", "\"", ":">>

\* A tool the registry does not hold.
S_task == <<"t", "a", "s", "k">>

EntryPaths == {"interactive_mode", "run_agent"}

\* What the model may ask for in these turns: the tool and the argument
\* text streamed for it.
RunCalls ==
    { [tool_name |-> S_read, args |-> ReadArgsText],
      [tool_name |-> S_read, args |-> CutArgsText],
      [tool_name |-> S_bash, args |-> BashArgsText],
      [tool_name |-> S_task, args |-> EmptyObjectText] }

\* TextPart(text) and ToolPart(tool_call) of a message.  A text is the
\* sequence of the chunks it was made of; output and error are texts, the
\* empty one standing for None as well, which the code does not tell apart
\* from an empty string where it reads them.
TextPart(text) == [type |-> "text", text |-> text]
ToolPart(tc) ==
    [type |-> "tool", id |-> tc.id, tool_name |-> tc.tool_name, input |-> tc.input,
     state |-> "pending", output |-> <<>>, error |-> <<>>]

\* create_user_message and create_assistant_message
RunUserMessage(text) ==
    [role |-> "user", parts |-> <<TextPart(text)>>, finish_reason |-> "None",
     error |-> <<>>]
RunAssistantMessage ==
    [role |-> "assistant", parts |-> <<>>, finish_reason |-> "None", error |-> <<>>]

\* add_text_part: the text is appended to the first text part of the
\* message, or becomes a new part
add_text_part(parts, text) ==
    IF \E i \in 1..Len(parts) : parts[i].type = "text"
    THEN [parts EXCEPT ![CHOOSE i \in 1..Len(parts) :
                            /\ parts[i].type = "text"
                            /\ \A j \in 1..(i - 1) : parts[j].type # "text"].text
                          = @ \o text]
    ELSE Append(parts, TextPart(text))

\* the text received is not added to the message
drop_current_text(parts, current_text) == parts

\* current_text += chunk.content with the operands exchanged
prepend_content(current_text, content) == <<content>> \o current_text

\* current_text += chunk.content
append_content(current_text, content) == Append(current_text, content)

\* if current_text: add_text_part(assistant_msg, current_text)
add_current_text(parts, current_text) ==
    IF current_text = <<>> THEN parts ELSE add_text_part(parts, current_text)

\* An exception leaving the innermost _process_stream through the frames
\* that await it (the calls that answered r): frames[k] is the current_text
\* of the k-th frame, the outermost first.  Only asyncio.CancelledError is
\* caught by them, and each adds its text before it raises again.
RECURSIVE Unwind(_, _, _)
Unwind(parts, frames, k) ==
    IF k = 0 THEN parts
    ELSE Unwind(add_current_text(parts, frames[k]), frames, k - 1)

\* add_tool_part for each call of tool_calls, after its arguments are parsed
RECURSIVE add_parsed_calls(_, _, _)
add_parsed_calls(parts, tool_calls, k) ==
    IF k > Len(tool_calls) THEN parts
    ELSE add_parsed_calls(
             Append(parts, ToolPart(parse_args(tool_calls[k],
                                               json_loads(tool_calls[k]._args_str)))),
             tool_calls, k + 1)

\* update_tool_part applied to every tool part of the message
run_update_tool_part_all(parts, call_id, state, output, error) ==
    [i \in 1..Len(parts) |->
        IF parts[i].type = "tool"
        THEN [parts[i] EXCEPT !.state = state, !.output = output, !.error = error]
        ELSE parts[i]]

\* update_tool_part: state, output and error of the part of call_id
run_update_tool_part(parts, call_id, state, output, error) ==
    [i \in 1..Len(parts) |->
        IF parts[i].type = "tool" /\ parts[i].id = call_id
             /\ \A j \in 1..(i - 1) : ~(parts[j].type = "tool" /\ parts[j].id = call_id)
        THEN [parts[i] EXCEPT !.state = state, !.output = output, !.error = error]
        ELSE parts[i]]

\* The text parts' texts of a message joined, and the parts that are tool
\* calls, in order.
RECURSIVE TextOf(_, _)
TextOf(parts, k) ==
    IF k > Len(parts) THEN <<>>
    ELSE IF parts[k].type = "text" THEN parts[k].text \o TextOf(parts, k + 1)
    ELSE TextOf(parts, k + 1)

ToolParts(parts) == SelectSeq(parts, LAMBDA q : q.type = "tool")

\* tc.output or tc.error or ""
Truthy3(output, error) ==
    IF output # <<>> THEN output
    ELSE IF error # <<>> THEN error
    ELSE <<>>

\* messages_to_openai_format, the entries of one message: the user entry;
\* for an assistant message with text or tool calls its entry, then one
\* tool entry per call that is completed or error.
no_tool_entries(tools) == <<>>

tool_entries(tools) ==
    [i \in 1..Len(tools) |->
        [role |-> "tool", tool_call_id |-> tools[i].id,
         content |-> Truthy3(tools[i].output, tools[i].error)]]

entries_of(msg) ==
    IF msg.role = "user"
    THEN << [role |-> "user", content |-> TextOf(msg.parts, 1)] >>
    ELSE IF TextOf(msg.parts, 1) = <<>> /\ ToolParts(msg.parts) = <<>>
    THEN <<>>
    ELSE << [role |-> "assistant", content |-> TextOf(msg.parts, 1),
             tool_calls |-> [i \in 1..Len(ToolParts(msg.parts)) |->
                               [id |-> ToolParts(msg.parts)[i].id,
                                name |-> ToolParts(msg.parts)[i].tool_name]]] >>
         \o tool_entries(SelectSeq(ToolParts(msg.parts),
                                   LAMBDA q : q.state \in {"completed", "error"}))

RECURSIVE messages_to_openai_format(_, _)
messages_to_openai_format(messages, k) ==
    IF k > Len(messages) THEN <<>>
    ELSE entries_of(messages[k]) \o messages_to_openai_format(messages, k + 1)

\* _build_messages: the system prompt, then the history
_build_messages(messages) ==
    << [role |-> "system", content |-> <<"system_prompt">>] >>
        \o messages_to_openai_format(messages, 1)

RunInit ==
    /\ rules = <<>>
    /\ approved = <<>>
    /\ granted = {}
    /\ last = NoCall
    /\ agent_name = "build"
    /\ session = <<>>
    /\ turn = 0
    /\ pc = "idle"
    /\ step = 0
    /\ finish_reason = "None"
    /\ idx = 0
    /\ returned = 0
    /\ pool = {}
    /\ budget = 0
    /\ provider = NoStream
    /\ assembler = NoAssembly
    /\ manager = NoStore
    /\ runner = [pc |-> "caller", entry |-> "none", turns |-> 0, messages |-> <<>>,
                 saved |-> <<>>, step |-> 0, aborted |-> FALSE, model_calls |-> 0,
                 request |-> <<>>, frames |-> <<>>, current_text |-> <<>>,
                 tool_calls |-> <<>>, finish_reason |-> "None", call |-> 0,
                 calls_made |-> 0, prompts |-> 0, status_task |-> "none",
                 settled |-> "none", executions |-> <<>>, received |-> <<>>]

RunUnchanged ==
    /\ UNCHANGED <<rules, approved, granted, provider, assembler, manager>>
    /\ UNCHANGED loopVars

\* The parts of the message of the current step.
CurrentParts == runner.messages[Len(runner.messages)].parts

\* run() returns assistant_msg after setting what the branch sets
RunReturns(r, parts, reason, error) ==
    [r EXCEPT !.pc = "returned",
              !.messages[Len(r.messages)] =
                  [@ EXCEPT !.parts = parts, !.finish_reason = reason, !.error = error]]

\* One of the entry paths calls loop.run(user_input) on the session with a
\* new AgentLoop: the user message is created.
Enter(entry) ==
    /\ runner.pc = "caller"
    /\ runner.turns < MaxRunTurns
    /\ runner.entry \in {"none", entry}
    /\ runner' = [runner EXCEPT
                    !.pc = "loop", !.entry = entry, !.turns = @ + 1, !.step = 0,
                    !.aborted = FALSE, !.prompts = 0,
                    !.messages = Append(@, RunUserMessage(<< <<"user", runner.turns + 1>> >>))]
    /\ last' = [op |-> "enter", entry |-> entry]
    /\ RunUnchanged

\* self._process_stream(assistant_msg) is entered: _build_messages, and the
\* stream is opened
OpenStream(r) ==
    [r EXCEPT !.pc = "stream", !.model_calls = @ + 1,
              !.request = _build_messages(r.messages),
              !.current_text = <<>>, !.tool_calls = <<>>, !.received = <<>>]

\* run(), the head of the loop and the start of a step
RunStep ==
    /\ runner.pc = "loop"
    /\ may_step(runner.step, MaxRunSteps)
    /\ ~runner.aborted
    /\ runner.model_calls < MaxModelCalls
    /\ runner' = OpenStream([runner EXCEPT
                    !.step = @ + 1, !.frames = <<>>,
                    !.messages = Append(@, RunAssistantMessage)])
    /\ last' = [op |-> "run_step"]
    /\ RunUnchanged

\* run(), the loop is left: max_steps reached, or aborted
RunLoopEnds ==
    /\ runner.pc = "loop"
    /\ ~may_step(runner.step, MaxRunSteps) \/ runner.aborted
    /\ runner' = [runner EXCEPT !.pc = "returned"]
    /\ last' = [op |-> "loop_ends"]
    /\ RunUnchanged

\* chunk.type == "text"
RunTextChunk ==
    /\ runner.pc = "stream"
    /\ Len(runner.current_text) < MaxTextChunks
    /\ \E content \in {<<runner.model_calls, Len(runner.current_text) + 1>>} :
         runner' = [runner EXCEPT !.current_text = append_content(@, content),
                                  !.received = Append(@, content)]
    /\ last' = [op |-> "chunk", type |-> "text"]
    /\ RunUnchanged

\* chunk.type == "tool_call" and the tool_call_delta chunks of the call
RunToolCallChunks(c) ==
    /\ runner.pc = "stream"
    /\ runner.calls_made < MaxRunCalls
    /\ \E id \in {10 * runner.model_calls + Len(runner.tool_calls) + 1} :
         runner' = [runner EXCEPT
            !.calls_made = @ + 1,
            !.tool_calls =
                on_tool_call_delta(on_tool_call(runner.tool_calls, id, c.tool_name),
                                   id, c.args)]
    /\ last' = [op |-> "chunk", type |-> "tool_call"]
    /\ RunUnchanged


\* _process_stream returned finish_reason to run(): it is recorded, and the
\* turn ends unless it is tool_calls.  The doom-loop check that follows
\* finds fewer than DOOM_LOOP_THRESHOLD calls.
AfterStream(r, parts, reason) ==
    [r EXCEPT !.pc = IF reason # "tool_calls" THEN "returned" ELSE "loop",
              !.finish_reason = reason,
              !.messages[Len(r.messages)] =
                  [@ EXCEPT !.parts = parts, !.finish_reason = reason]]

StreamEnds == {"stop", "tool_calls", "error", "aborted"}

\* The stream ends with this finish reason ("error" and "aborted" after the
\* answers s and a to the retry prompt): the text part is added, the
\* arguments are parsed and the tool parts added.
RunEndOfStream(reason) ==
    /\ runner.pc = "stream"
    /\ reason = "tool_calls" => runner.tool_calls # <<>>
    /\ \E parts \in {add_parsed_calls(add_current_text(CurrentParts, runner.current_text),
                                      runner.tool_calls, 1)} :
       \E r \in {[runner EXCEPT !.aborted = @ \/ reason = "aborted"]} :
         runner' = IF runner.tool_calls = <<>>
                   THEN AfterStream(r, parts, reason)
                   ELSE [r EXCEPT !.pc = "tools", !.call = 1, !.finish_reason = reason,
                                  !.messages[Len(r.messages)].parts = parts]
    /\ last' = [op |-> "end_of_stream", reason |-> reason]
    /\ RunUnchanged

\* finish_reason "error" and the answer r: _process_stream is called again
\* for the same message and its result returned
RunRetry ==
    /\ runner.pc = "stream"
    /\ runner.prompts < MaxPrompts
    /\ runner.model_calls < MaxModelCalls
    /\ runner' = OpenStream([runner EXCEPT
                    !.prompts = @ + 1,
                    !.frames = Append(@, runner.current_text)])
    /\ last' = [op |-> "retry"]
    /\ RunUnchanged

\* asyncio.CancelledError at the async for of the stream
RunCancelStream ==
    /\ runner.pc = "stream"
    /\ runner' = RunReturns([runner EXCEPT !.aborted = TRUE],
                     Unwind(add_current_text(CurrentParts, runner.current_text),
                            runner.frames, Len(runner.frames)),
                     "interrupted", runner.messages[Len(runner.messages)].error)
    /\ last' = [op |-> "cancel", at |-> "stream"]
    /\ RunUnchanged

\* run() leaving the exception unrecorded
except_Exception_pass(r, e) == [r EXCEPT !.pc = "returned"]

\* run(), except Exception as e: the text of e on the error field,
\* finish_reason error, return
except_Exception(r, e) ==
    RunReturns(r, r.messages[Len(r.messages)].parts, "error", <<e>>)

\* An exception that is neither a cancellation nor a permission failure
\* while the stream is consumed
RunRaiseInStream ==
    /\ runner.pc = "stream"
    /\ runner' = except_Exception(runner, "Exception")
    /\ last' = [op |-> "raise", at |-> "stream"]
    /\ RunUnchanged

\* The tool call _execute_tools is at.
CurrentCall == ToolParts(CurrentParts)[Len(ToolParts(CurrentParts))
                                         - Len(runner.tool_calls) + runner.call]

\* tc.input.get(key) is truthy for the key the early check reads
prechecked(tc) ==
    \/ tc.tool_name = S_read /\ Truthy(tc.input, S_file_path)
    \/ tc.tool_name = S_bash /\ Truthy(tc.input, S_command)

CheckOutcomes == {"none", "PermissionRejectedError", "PermissionDeniedError"}

\* _execute_tools, an iteration up to the await of tool.execute: the call
\* is marked running, the early permission check is made, the status task
\* is created
RunStartTool(raised) ==
    /\ runner.pc = "tools"
    /\ runner.call <= Len(runner.tool_calls)
    /\ CurrentCall.tool_name \in ToolNames
    /\ raised # "none" => prechecked(CurrentCall)
    /\ runner' =
         IF raised = "none"
         THEN [runner EXCEPT
                 !.pc = "executing", !.status_task = "sleeping",
                 !.executions = Append(@, CurrentCall.id),
                 !.messages[Len(runner.messages)].parts =
                     run_update_tool_part(@, CurrentCall.id, "running", <<>>, <<>>)]
         ELSE RunReturns(runner,
                  run_update_tool_part(CurrentParts, CurrentCall.id, "error", <<>>,
                                       <<raised>>),
                  IF raised = "PermissionRejectedError" THEN "stopped" ELSE "error",
                  IF raised = "PermissionRejectedError"
                  THEN runner.messages[Len(runner.messages)].error
                  ELSE <<raised>>)
    /\ last' = [op |-> "start_tool", raised |-> raised]
    /\ RunUnchanged

\* _execute_tools, an iteration for a tool the registry does not hold: the
\* call goes to error and the loop continues
RunUnknownTool ==
    /\ runner.pc = "tools"
    /\ runner.call <= Len(runner.tool_calls)
    /\ CurrentCall.tool_name \notin ToolNames
    /\ runner' = [runner EXCEPT
                    !.call = @ + 1,
                    !.messages[Len(runner.messages)].parts =
                        run_update_tool_part(@, CurrentCall.id, "error", <<>>,
                                             <<"Unknown tool">>)]
    /\ last' = [op |-> "unknown_tool"]
    /\ RunUnchanged

\* update_status wakes from asyncio.sleep(0.5) and sleeps again
StatusTick ==
    /\ runner.status_task = "sleeping"
    /\ last.op # "status_tick"
    /\ last' = [op |-> "status_tick"]
    /\ UNCHANGED runner
    /\ RunUnchanged

\* How the await of tool.execute can end: read needs file_path and never
\* suspends; bash needs command, catches what its subprocess raises and
\* suspends while the command runs.
Settlements(tc) ==
    IF tc.tool_name = S_read
    THEN IF Has(tc.input, S_file_path) THEN {"ok", "raise"} ELSE {"raise"}
    ELSE IF Has(tc.input, S_command) THEN {"ok", "cancel"} ELSE {"raise"}

\* the await of tool.execute ends; finally: status_task.cancel()
RunSettle(kind) ==
    /\ runner.pc = "executing"
    /\ kind \in Settlements(CurrentCall)
    /\ runner' = [runner EXCEPT !.pc = "finally", !.settled = kind,
                                !.status_task = "cancelling"]
    /\ last' = [op |-> "settle", kind |-> kind]
    /\ RunUnchanged

\* the status task gets asyncio.CancelledError in its sleep and ends
StatusCancelled ==
    /\ runner.status_task = "cancelling"
    /\ runner' = [runner EXCEPT !.status_task = "none"]
    /\ last' = [op |-> "status_cancelled"]
    /\ RunUnchanged

\* the loop going on without awaiting the status task
status_task_ignored(status_task) == TRUE

\* await status_task: the loop goes on when the task is done
status_task_done(status_task) == status_task = "none"

\* finally, after await status_task: the result or the exception is recorded
\* and the loop goes to the next call; a cancellation leaves _execute_tools
\* and _process_stream
RunAfterFinally ==
    /\ runner.pc = "finally"
    /\ status_task_done(runner.status_task)
    /\ runner' =
         IF runner.settled = "cancel"
         THEN RunReturns([runner EXCEPT !.settled = "none",
                                        !.aborted = @ \/ runner.frames # <<>>],
                  Unwind(CurrentParts, runner.frames, Len(runner.frames)),
                  "interrupted", runner.messages[Len(runner.messages)].error)
         ELSE [runner EXCEPT
                 !.pc = "tools", !.settled = "none", !.call = @ + 1,
                 !.messages[Len(runner.messages)].parts =
                     IF runner.settled = "ok"
                     THEN run_update_tool_part(@, CurrentCall.id, "completed",
                                               <<"output", CurrentCall.id>>, <<>>)
                     ELSE run_update_tool_part(@, CurrentCall.id, "error", <<>>,
                                               <<"KeyError">>)]
    /\ last' = [op |-> "after_finally", kind |-> runner.settled]
    /\ RunUnchanged

\* _execute_tools returned: finish_reason stop becomes tool_calls
RunToolsDone ==
    /\ runner.pc = "tools"
    /\ runner.call > Len(runner.tool_calls)
    /\ runner' = AfterStream(runner, CurrentParts,
                     IF runner.finish_reason = "stop" THEN "tool_calls"
                     ELSE runner.finish_reason)
    /\ last' = [op |-> "tools_done"]
    /\ RunUnchanged

\* loop.run returned to the entry path: interactive_mode saves the session,
\* run_agent returns the message
ReturnToCaller ==
    /\ runner.pc = "returned"
    /\ runner' = [runner EXCEPT
                    !.pc = "caller",
                    !.saved = IF runner.entry = "interactive_mode"
                              THEN runner.messages ELSE @]
    /\ last' = [op |-> "return", entry |-> runner.entry]
    /\ RunUnchanged

RunNext ==
    \/ \E entry \in EntryPaths : Enter(entry)
    \/ RunStep
    \/ RunLoopEnds
    \/ RunTextChunk
    \/ \E c \in RunCalls : RunToolCallChunks(c)
    \/ \E reason \in StreamEnds : RunEndOfStream(reason)
    \/ RunRetry
    \/ RunCancelStream
    \/ RunRaiseInStream
    \/ \E raised \in CheckOutcomes : RunStartTool(raised)
    \/ RunUnknownTool
    \/ StatusTick
    \/ \E kind \in {"ok", "raise", "cancel"} : RunSettle(kind)
    \/ StatusCancelled
    \/ RunAfterFinally
    \/ RunToolsDone
    \/ ReturnToCaller

RunSpec == RunInit /\ [][RunNext]_vars


-----------------------------------------------------------------------------
(* SessionManager (src/src/session.py 18-72): the sessions it holds in     *)
(* memory, the files of its storage directory, and get.  A session is its  *)
(* id and the date part of its file name; generate_session_id draws five   *)
(* characters from lowercase letters and digits, the ids here are three.   *)

MaxStored == 2     \* session files in the storage directory
MaxQueryLen == 2   \* characters of the id handed to get

S_session_ == <<"s", "e", "s", "s", "i", "o", "n", "_">>
Underscore == <<"_">>

StoredSession(id, date_part) == [id |-> id, date_part |-> date_part]

Sessions ==
    { StoredSession(<<"a", "b", "1">>, <<"2", "0", "2", "6", "1", "1", "0", "1", "_", "1", "0", "1", "5", "0", "0">>),
      StoredSession(<<"s", "9", "a">>, <<"2", "0", "2", "6", "1", "1", "0", "2", "_", "0", "9", "3", "0", "0", "0">>),
      StoredSession(<<"a", "9", "b">>, <<"2", "0", "2", "6", "1", "1", "0", "1", "_", "1", "0", "1", "5", "0", "0">>),
      StoredSession(<<"1", "1", "0">>, <<"2", "0", "2", "6", "1", "1", "0", "2", "_", "0", "9", "3", "0", "0", "0">>) }

\* The characters get is asked with.
QueryChars == {"a", "1", "s", "9"}

\* save: Path(f"session_{date_part}_{session.id}.json").stem
stem(sess) == S_session_ \o sess.date_part \o Underscore \o sess.id

NoSession == [found |-> FALSE, id |-> <<>>]
Found(sess) == [found |-> TRUE, id |-> sess.id]

\* the partial match made on the session's id
matches_id(sess, session_id) == contains(sess.id, session_id)

\* if session_id in f.stem
matches_file(sess, session_id) == contains(stem(sess), session_id)

\* SessionManager.get: the sessions it can return.  One held in memory
\* under exactly this id; else the first file of storage_dir.glob("*.json")
\* whose stem contains session_id, the order of glob being that of the
\* directory; else None.
get(m, session_id) ==
    IF \E q \in m._sessions : q.id = session_id
    THEN {Found(q) : q \in {h \in m._sessions : h.id = session_id}}
    ELSE IF \E f \in m.files : matches_file(f, session_id)
    THEN {Found(f) : f \in {q \in m.files : matches_file(q, session_id)}}
    ELSE {NoSession}

GetInit ==
    /\ rules = <<>>
    /\ approved = <<>>
    /\ granted = {}
    /\ last = NoCall
    /\ agent_name = "build"
    /\ session = <<>>
    /\ turn = 0
    /\ pc = "idle"
    /\ step = 0
    /\ finish_reason = "None"
    /\ idx = 0
    /\ returned = 0
    /\ pool = {}
    /\ budget = 0
    /\ provider = NoStream
    /\ assembler = NoAssembly
    /\ runner = NoRun
    /\ manager = [_sessions |-> {}, files |-> {}]

GetUnchanged ==
    /\ UNCHANGED <<rules, approved, granted, provider, assembler, runner>>
    /\ UNCHANGED loopVars

\* SessionManager.create: a new session, held in memory
CreateSession(new) ==
    /\ new \notin manager._sessions \cup manager.files
    /\ manager' = [manager EXCEPT !._sessions = @ \cup {new}]
    /\ last' = [op |-> "create"]
    /\ GetUnchanged

\* SessionManager.save: the session's file is written
SaveSession(saved) ==
    /\ saved \in manager._sessions
    /\ Cardinality(manager.files \cup {saved}) <= MaxStored
    /\ manager' = [manager EXCEPT !.files = @ \cup {saved}]
    /\ last' = [op |-> "save"]
    /\ GetUnchanged

\* SessionManager(): the manager of a new process on the same directory
NewManager ==
    /\ manager._sessions # {}
    /\ manager' = [manager EXCEPT !._sessions = {}]
    /\ last' = [op |-> "new_manager"]
    /\ GetUnchanged

\* SessionManager.get(session_id); a session read from a file is put in
\* memory
GetSession(session_id) ==
    \E result \in get(manager, session_id) :
        /\ manager' = [manager EXCEPT
                         !._sessions = @ \cup {q \in manager.files :
                                                 result.found /\ q.id = result.id}]
        /\ last' = [op |-> "get", session_id |-> session_id, result |-> result,
                    held |-> manager._sessions, files |-> manager.files]
        /\ GetUnchanged

\* SessionManager.delete: the entry of session_id leaves the memory, and
\* every file of storage_dir.glob("*.json") whose stem contains session_id
\* is unlinked
delete(m, session_id) ==
    [m EXCEPT !._sessions = {q \in m._sessions : q.id # session_id},
              !.files = {f \in m.files : ~matches_file(f, session_id)}]

\* /delete of interactive_mode: session_manager.delete(target.id) for a
\* session that get returned
DeleteSession(target) ==
    /\ target \in manager._sessions \cup manager.files
    /\ manager' = delete(manager, target.id)
    /\ last' = [op |-> "delete", session_id |-> target.id,
                held |-> manager._sessions, files |-> manager.files]
    /\ GetUnchanged

GetNext ==
    \/ \E new \in Sessions : CreateSession(new)
    \/ \E target \in Sessions : DeleteSession(target)
    \/ \E saved \in Sessions : SaveSession(saved)
    \/ NewManager
    \/ \E session_id \in SeqsUpTo(QueryChars, MaxQueryLen) : GetSession(session_id)

GetSpec == GetInit /\ [][GetNext]_vars

-----------------------------------------------------------------------------
(* Claims on the permission engine.                                        *)

Max(S) == CHOOSE x \in S : \A y \in S : y <= x

\* The indices of the rules of all_rules that match the request.
MatchingRules(all_rules, permission, pattern) ==
    {k \in 1..Len(all_rules) :
        /\ _match(permission, all_rules[k].permission)
        /\ _match(pattern, all_rules[k].pattern)}

\* C1: evaluate returns the action of the last rule of (configured rules
\* followed by runtime-approved rules) whose two patterns match the request,
\* and "ask" when no rule matches.
C1_LastMatchWins ==
    last.op = "evaluate" =>
        LET all_rules == rules \o approved
            M == MatchingRules(all_rules, last.permission, last.pattern)
        IN  last.action = IF M = {} THEN "ask" ELSE all_rules[Max(M)].action

\* Two configured rules with different actions and an approved rule all match
\* the evaluated request, and the approved rule decided.
C1_Witness ==
    /\ last.op = "evaluate"
    /\ Len(rules) = 2
    /\ approved # <<>>
    /\ MatchingRules(rules \o approved, last.permission, last.pattern)
           = 1..(Len(rules) + Len(approved))
    /\ rules[1].action = "deny"
    /\ rules[2].action = "ask"
    /\ last.action = "allow"

\* C2: once the user answered "always" to the prompt of check(scope, [target]),
\* every later evaluate(scope, target) returns allow and a later
\* check(scope, [target]) does not invoke the callback.
C2_AlwaysIsRemembered ==
    /\ (last.op = "evaluate"
            /\ [permission |-> last.permission, pattern |-> last.pattern] \in granted)
        => last.action = "allow"
    /\ (last.op = "check_one" /\ last.before) => ~last.prompted

\* The approved list before the i-th pattern of a check call was evaluated: the
\* list the call started with and one allow rule for each earlier "always".
RECURSIVE ApprovedBefore(_, _, _, _)
ApprovedBefore(appr, permission, trace, i) ==
    IF i <= 1 THEN appr
    ELSE LET prev == ApprovedBefore(appr, permission, trace, i - 1)
         IN  IF trace[i - 1].response = "always"
             THEN Append(prev, PermissionRule(permission, trace[i - 1].pattern, "allow"))
             ELSE prev

\* C5: check takes the targets in list order; on deny it raises
\* PermissionDeniedError; on ask it invokes the callback exactly once and raises
\* PermissionRejectedError if the user declines; on allow it neither prompts nor
\* raises.  The two failures are distinct.
C5_CheckPerTarget ==
    last.op = "check" =>
        LET t == last.trace
            n == Len(t)
        IN  /\ n <= Len(last.patterns)
            /\ \A i \in 1..n :
                /\ t[i].pattern = last.patterns[i]
                /\ t[i].action =
                       evaluate(rules, ApprovedBefore(<<>>, last.permission, t, i),
                                last.permission, t[i].pattern)
                /\ t[i].action = "deny" =>
                       /\ t[i].response = "-"
                       /\ i = n
                       /\ last.raised = "PermissionDeniedError"
                /\ t[i].action = "ask" =>
                       /\ t[i].response \in Responses
                       /\ t[i].response = "n" =>
                              (i = n /\ last.raised = "PermissionRejectedError")
                       /\ t[i].response # "n" => (i < n \/ last.raised = "none")
                /\ t[i].action = "allow" =>
                       /\ t[i].response = "-"
                       /\ (i < n \/ last.raised = "none")
            /\ last.raised = "none" => n = Len(last.patterns)
            /\ last.raised = "PermissionDeniedError" => (n > 0 /\ t[n].action = "deny")
            /\ last.raised = "PermissionRejectedError" =>
                   (n > 0 /\ t[n].action = "ask" /\ t[n].response = "n")
            /\ approved = ApprovedBefore(<<>>, last.permission, t, n + 1)

\* A check of two targets: the first was asked and answered "always", the second
\* was denied by the policy.
C5_Witness ==
    /\ last.op = "check"
    /\ Len(last.trace) = 2
    /\ last.trace[1].action = "ask"
    /\ last.trace[1].response = "always"
    /\ last.trace[2].action = "deny"
    /\ last.raised = "PermissionDeniedError"

-----------------------------------------------------------------------------
(* Claims on the interactive session and the agent loop.                   *)

\* The last operation showed prompts to the user.
Prompted == last.op \in {"execute_tool", "after_step"} /\ last.prompts # <<>>

\* C3: in interactive mode, after the user answered "always" for a (scope,
\* target) pair during one turn, an identical request made in a later turn of
\* the same session is allowed without prompting.
C3_AlwaysSurvivesTurns ==
    Prompted =>
        \A i \in 1..Len(last.prompts) :
            [permission |-> last.prompts[i].permission,
             pattern |-> last.prompts[i].pattern] \notin granted

\* C4: no tool's execute starts for a tool call unless a check for the tool's
\* scope was performed for that call and did not raise, for every registered
\* tool and every input mapping.
C4_ExecuteIsGated ==
    (last.op = "execute_tool" /\ last.started) => last.prechecked

\* C6: when the loop's early check for a bash, read or edit call evaluated to
\* ask and the user allowed it, the tool's own ask_permission does not prompt
\* again: one tool call prompts at most once, for relative and absolute paths.
C6_OnePromptPerCall ==
    (/\ last.op = "execute_tool"
     /\ last.tool_name \in {S_bash, S_read, S_edit}
     /\ last.prompts # <<>>
     /\ last.prompts[1].phase = "loop"
     /\ last.prompts[1].response \in {"y", "always"})
        => Len(last.prompts) = 1

\* C7: whenever doom-loop detection triggers, the user is asked before another
\* step starts: with the rule list built for the agent, evaluate("doom_loop",
\* "*") is ask, unless the user answered "always" to that prompt earlier in
\* the turn.
C7_DoomLoopAsksUser ==
    (last.op = "after_step" /\ last.detected) =>
        \/ last.action = "ask"
        \/ [permission |-> S_doom_loop, pattern |-> Star] \in Remembered(approved)

\* The last k messages of the session are assistant messages: the steps of
\* the current turn so far number at least k.
TailSteps(k) ==
    /\ Len(session) >= k
    /\ \A j \in 0..(k - 1) : session[Len(session) - j].role = "assistant"

\* Two inputs are the same argument mapping, whatever their key order.
SameMapping(a, b) == {a[i] : i \in 1..Len(a)} = {b[i] : i \in 1..Len(b)}

\* The step that just ended is the third of three consecutive steps that each
\* requested bash with the command string c, and it ended as a tool-call step.
ThreeStepsSameCommand(c) ==
    /\ last.op = "after_step"
    /\ last.reason = "tool_calls"
    /\ TailSteps(DOOM_LOOP_THRESHOLD)
    /\ \A j \in 0..(DOOM_LOOP_THRESHOLD - 1) :
          \E p \in 1..Len(session[Len(session) - j].parts) :
              LET part == session[Len(session) - j].parts[p]
              IN  /\ part.tool_name = S_bash
                  /\ Has(part.input, "command")
                  /\ Get(part.input, "command") = c

\* The same, and bash calls with one and the same argument mapping are all
\* that the three steps requested.
ThreeStepsSameCall(c) ==
    /\ ThreeStepsSameCommand(c)
    /\ \A j \in 0..(DOOM_LOOP_THRESHOLD - 1) :
          \A p \in 1..Len(session[Len(session) - j].parts) :
              LET part == session[Len(session) - j].parts[p]
              IN  /\ part.tool_name = S_bash
                  /\ SameMapping(part.input, session[Len(session)].parts[1].input)

\* The user declined the doom-loop prompt of the step that just ended.
DoomRejected == last.prompts # <<>> /\ last.prompts[1].response = "n"

\* run() has returned the last message with finish_reason stopped; no step
\* follows in the turn.
ReturnedStopped ==
    /\ pc = "idle"
    /\ returned = Len(session)
    /\ session[returned].finish_reason = "stopped"

\* C8 as stated: when three consecutive steps each request bash with the same
\* command string, detection triggers at the end of the third step, and a
\* rejected doom-loop prompt makes run() return with finish_reason stopped.
C8_SameCommandTriggers ==
    ThreeStepsSameCommand(ls) =>
        /\ last.detected
        /\ DoomRejected => ReturnedStopped

\* C8, amended: when three consecutive steps each end as a tool-call step and
\* request nothing but bash calls with one and the same argument mapping (in
\* any key order), detection triggers at the end of the third step, and a
\* rejected doom-loop prompt makes run() return with finish_reason stopped
\* before a fourth step.
C8_SameCallTriggers ==
    ThreeStepsSameCall(ls) =>
        /\ last.detected
        /\ DoomRejected => ReturnedStopped

C8_Witness ==
    /\ ThreeStepsSameCall(ls)
    /\ last.detected
    /\ DoomRejected
    /\ ReturnedStopped
    /\ step = DOOM_LOOP_THRESHOLD

\* The tool calls of the session in the order they were requested.
RECURSIVE AllCalls(_, _)
AllCalls(messages, m) ==
    IF m > Len(messages) THEN <<>>
    ELSE messages[m].parts \o AllCalls(messages, m + 1)

\* The three most recent tool calls of the session exist and have the same
\* tool name and the same argument mapping.
ThreeMostRecentIdentical ==
    LET calls == AllCalls(session, 1)
        n == Len(calls)
    IN  /\ n >= DOOM_LOOP_THRESHOLD
        /\ \A j \in 1..(DOOM_LOOP_THRESHOLD - 1) :
              /\ calls[n - j].tool_name = calls[n].tool_name
              /\ SameMapping(calls[n - j].input, calls[n].input)

\* C9: _detect_doom_loop returns true when the three most recent tool calls of
\* the session have the same tool name and argument mapping, whatever the key
\* order, false when a name or a value differs among them or the session holds
\* fewer than three calls; the scan spans the earlier turns.
C9_DetectsThreeMostRecent ==
    last.op = "detect" => (last.result <=> ThreeMostRecentIdentical)

\* C10: when max_steps steps have run and each ended with finish reason
\* tool_calls, run() returns the last assistant message and its finish_reason
\* is max-steps-reached.
C10_MaxStepsReached ==
    last.op = "max_steps_reached" =>
        /\ returned = Len(session)
        /\ session[returned].role = "assistant"
        /\ session[returned].finish_reason = "max-steps-reached"

\* The assistant messages appended for the t-th user input.
StepsOfTurn(t) ==
    Cardinality({i \in 1..Len(session) :
                    session[i].role = "assistant" /\ session[i].turn = t})

\* C11: run() appends at most agent.max_steps assistant messages to the
\* session for one user input, and when every provider stream is finite and
\* the user chooses retry only finitely often, run() eventually returns.
C11_BoundedTurn ==
    /\ [](\A t \in 1..turn : StepsOfTurn(t) <= agent_config(agent_name).max_steps)
    /\ (pc # "idle") ~> (pc = "idle")

\* run() returned after max_steps steps of the turn.
C11_Witness ==
    /\ last.op = "max_steps_reached"
    /\ pc = "idle"
    /\ StepsOfTurn(turn) = agent_config(agent_name).max_steps

\* C12: when a permission failure occurs while executing the i-th tool call
\* of a step, that call is recorded with state error, none of the later tool
\* calls of the step is executed, no further model call is made, and run()
\* returns with finish_reason stopped for a user rejection and with
\* finish_reason error and the message on the error field for a denial.
C12_PermissionFailureEndsTurn ==
    (last.op = "execute_tool" /\ last.raised \in PermissionErrors) =>
        LET msg == session[Len(session)]
        IN  /\ pc = "idle"
            /\ returned = Len(session)
            /\ msg.parts[last.call].state = "error"
            /\ msg.parts[last.call].error = last.raised
            /\ \A k \in (last.call + 1)..Len(msg.parts) : msg.parts[k].state = "pending"
            /\ last.raised = "PermissionRejectedError" => msg.finish_reason = "stopped"
            /\ last.raised = "PermissionDeniedError" =>
                  msg.finish_reason = "error" /\ msg.error = last.raised

\* The user rejected the first of the two tool calls of a step.
C12_Witness ==
    /\ last.op = "execute_tool"
    /\ last.raised = "PermissionRejectedError"
    /\ last.call = 1
    /\ Len(session[Len(session)].parts) = 2
    /\ pc = "idle"

\* What a tool call fails with other than a permission failure: an exception
\* of the tool's execute, a tool name the registry does not hold.
OtherFailures == {"KeyError", "UnknownTool"}

\* The step that just ended went on to the doom-loop check and passed it.
PassedDoomLoop ==
    \/ ~last.detected
    \/ last.action = "allow"
    \/ last.prompts # <<>> /\ last.prompts[1].response \in {"y", "always"}

\* C13: when a tool's execute raises an exception that is not a permission
\* failure, or the tool name is not registered, only that tool call is marked
\* state error with the error message; the remaining tool calls of the step
\* are still executed in order and the turn continues with the next step.
C13_ToolErrorIsLocal ==
    /\ (last.op = "execute_tool" /\ last.raised \in OtherFailures) =>
          LET parts == session[Len(session)].parts
          IN  /\ parts[last.call].state = "error"
              /\ parts[last.call].error = last.raised
              /\ \A k \in 1..(last.call - 1) : parts[k].state \in {"completed", "error"}
              /\ \A k \in (last.call + 1)..Len(parts) : parts[k].state = "pending"
              /\ returned = 0
              /\ IF last.call < Len(parts)
                 THEN pc = "tools" /\ idx = last.call + 1
                 ELSE pc = "after"
    /\ (/\ last.op = "after_step"
        /\ last.reason = "tool_calls"
        /\ PassedDoomLoop
        /\ \E k \in 1..Len(session[Len(session)].parts) :
               session[Len(session)].parts[k].error \in OtherFailures)
          => pc = "loop" /\ returned = 0

\* The first of two tool calls raised in execute and the second is next.
C13_Witness ==
    /\ last.op = "execute_tool"
    /\ last.raised = "KeyError"
    /\ last.call = 1
    /\ pc = "tools"
    /\ idx = 2

\* The tool calls of the session that are being executed.
RunningCalls ==
    {<<m, k>> \in (1..Len(session)) \X (1..MaxCalls) :
        k <= Len(session[m].parts) /\ session[m].parts[k].state = "running"}

\* C14: within a step the tool calls are executed one after another in the
\* order of their tool_call chunks: call k+1 starts only after call k has
\* reached completed or error, and two tool executions of the same session
\* never overlap.
C14_OneToolAtATime ==
    /\ Cardinality(RunningCalls) <= 1
    /\ \A m \in 1..Len(session) :
          \A k \in 2..Len(session[m].parts) :
              session[m].parts[k].state # "pending" =>
                  session[m].parts[k - 1].state \in {"completed", "error"}

\* The second tool call of a step is running after the first completed.
C14_Witness ==
    /\ last.op = "start_tool"
    /\ last.call = 2
    /\ session[Len(session)].parts[1].state = "completed"
    /\ session[Len(session)].parts[2].state = "running"

-----------------------------------------------------------------------------
(* Claims on the retry loops.                                              *)

\* An attempt of the running loop just failed and the loop waits and retries.
Retried == last.op = "attempt" /\ last.retried

\* The failure of the last attempt carries a rate-limit signal: a message
\* matching rate-limit or HTTP 429, or an LLMRateLimitError.
RateLimitSignal ==
    /\ last.event.kind = "raise"
    /\ \/ rate_limited(last.event.message)
       \/ last.path = "retry_async" /\ last.event.class = "LLMRateLimitError"

\* C15: when every attempt of a model call fails with a retryable error and
\* max_retries = N, exactly N+1 attempts are made and only then is a terminal
\* error reported: the provider stream ends with an error chunk followed by
\* a finish chunk with finish reason error (retry_async raises the last
\* exception).
C15_RetriesThenTerminalError ==
    (provider.pc = "done" /\ provider.transient) =>
        /\ provider.attempt = provider.config.max_retries + 1
        /\ provider.path = "stream" =>
              provider.tail = <<ErrorChunk, FinishChunk("error")>>
        /\ provider.path = "retry_async" => provider.result = "raised"

\* max_retries = 2 and three attempts of stream() failed with retryable errors.
C15_Witness ==
    /\ provider.pc = "done"
    /\ provider.transient
    /\ provider.path = "stream"
    /\ provider.config.max_retries = 2
    /\ provider.attempt = 3
    /\ finish_reason_of(provider.tail) = "error"

\* C16: the delay waited before retry number n, when the failure carries no
\* rate-limit signal, equals min(initial_delay * base^n, max_delay) on every
\* retry path, the providers' stream loop and retry_async; it never exceeds
\* max_delay.
C16_DelayIsCappedBackoff ==
    (Retried /\ ~RateLimitSignal) =>
        last.delay =
            IF last.path = "stream"
            THEN Min2(provider.config.retry_delay * Pow(2, last.n),
                      DEFAULT_RETRY_CONFIG.max_delay)
            ELSE Min2(provider.config.initial_delay
                          * Pow(provider.config.exponential_base, last.n),
                      provider.config.max_delay)

\* C17: when a failure carries a rate-limit signal, the delay waited before
\* the retry is at least the rate-limit floor of 10 seconds whatever the
\* attempt number, on every retry path.
C17_RateLimitFloor ==
    (Retried /\ RateLimitSignal) => last.delay >= RATE_LIMIT_FLOOR

\* The message holds none of the retryable keywords.
NoKeyword(message) ==
    \A keyword \in RetryableKeywords : ~contains(lower(message), keyword)

\* After the last attempt the stream ended with an error chunk followed by a
\* finish chunk with finish reason error, and no further attempt is made.
EndedFatally ==
    /\ ~last.retried
    /\ provider.pc = "done"
    /\ provider.attempt = last.n + 1
    /\ provider.tail = <<ErrorChunk, FinishChunk("error")>>

\* C18 as stated: a failure whose message contains none of the retryable
\* keywords is fatal: no further attempt, an error chunk followed by finish
\* reason error, whatever max_retries is.
C18_NoKeywordIsFatal ==
    (/\ last.op = "attempt"
     /\ last.path = "stream"
     /\ last.event.kind \in {"raise", "timeout"}
     /\ NoKeyword(last.event.message)) => EndedFatally

\* C18, amended: an exception other than the connection timeout
\* (asyncio.TimeoutError) that the model call or its stream raises with a
\* message containing none of the retryable keywords is fatal: the provider
\* makes no further attempt and ends the stream with an error chunk followed
\* by finish reason error, whatever max_retries is.
C18_UnknownExceptionIsFatal ==
    (/\ last.op = "attempt"
     /\ last.path = "stream"
     /\ last.event.kind = "raise"
     /\ NoKeyword(last.event.message)) => EndedFatally

\* The first attempt raised an exception without a keyword while retries
\* were left, and the stream ended after that one attempt.
C18_Witness ==
    /\ last.op = "attempt"
    /\ last.path = "stream"
    /\ last.event.kind = "raise"
    /\ last.event.message = ApiKeyText
    /\ last.n = 0
    /\ provider.config.max_retries = 3
    /\ provider.attempt = 1
    /\ provider.pc = "done"

\* C19: when no event arrives for 60 seconds in the middle of a provider
\* stream, the call is retried like any other transient failure: a new
\* attempt is made while attempts remain, and when they are exhausted the
\* step reports finish reason error rather than completing normally.
C19_StallIsRetried ==
    (last.op = "attempt" /\ last.path = "stream" /\ last.event.kind = "stall") =>
        IF may_retry(last.n, provider.config.max_retries)
        THEN provider.pc = "running" /\ provider.attempt = last.n + 1
        ELSE finish_reason_of(provider.tail) = "error"

-----------------------------------------------------------------------------
(* Claims on the streaming assembler.                                      *)

(* C20: however the argument text of a tool call is split into             *)
(* tool_call_delta fragments, and however the fragments of different tool  *)
(* calls interleave, the argument string assembled for the call is the     *)
(* concatenation of its own fragments in arrival order, and when that      *)
(* concatenation is valid JSON the input of the call after the stream is   *)
(* the parse of the whole text.                                            *)
C20_FragmentsAssemble ==
    assembler.pc # "idle" =>
        \A i \in 1..Len(assembler.tool_calls) :
            \E id \in {assembler.tool_calls[i].id} :
            \E text \in {Sent(assembler.script, id)} :
                /\ assembler.pc = "streaming" =>
                       /\ assembler.tool_calls[i]._args_str = text
                       /\ assembler.tool_calls[i].has_args_str
                              = (assembler.script[id].fragments > 0)
                /\ (/\ assembler.pc = "done"
                    /\ assembler.script[id].fragments > 0
                    /\ json_loads(text).ok)
                   => assembler.tool_calls[i].input = json_loads(text).value

\* Two calls whose fragments interleaved, each text in several fragments,
\* both parsed after the stream: one to its member, one to the later value
\* of a key written twice.
C20_Witness ==
    /\ assembler.pc = "done"
    /\ assembler.interleaved
    /\ Len(assembler.tool_calls) = 2
    /\ \A id \in CallIds : assembler.script[id].fragments >= 2
    /\ assembler.script["call_1"].text = OneMemberText
    /\ assembler.script["call_2"].text = SameKeyText
    /\ \E i, j \in 1..2 :
         /\ assembler.tool_calls[i].id = "call_1"
         /\ assembler.tool_calls[i].input = << << <<"a">>, <<"b">> >> >>
         /\ assembler.tool_calls[j].id = "call_2"
         /\ assembler.tool_calls[j].input = << << <<"a">>, <<"c">> >> >>

-----------------------------------------------------------------------------
(* Claims of the third sitting on the permission engine.                   *)

(* C29: a check call with several targets of which one evaluates to deny   *)
(* raises PermissionDeniedError without partial effect: the callback was   *)
(* not invoked for any target of the call and no rule was appended to the  *)
(* approved list, wherever the denied target stands in the list.           *)
C29_DenyHasNoPartialEffect ==
    (/\ last.op = "check"
     /\ Len(last.patterns) > 1
     /\ last.raised = "PermissionDeniedError")
    => /\ \A i \in 1..Len(last.trace) : last.trace[i].response = "-"
       /\ approved = <<>>

-----------------------------------------------------------------------------
(* Claims of the third sitting on the agent loop.                          *)

(* C25: when run() has returned, every tool call of the session is in a    *)
(* terminal state, completed or error: none is pending or running,         *)
(* whatever ended the turn.                                                *)
C25_CallsEndTerminal ==
    pc = "idle" =>
        \A m \in 1..Len(session) : \A k \in 1..Len(session[m].parts) :
            session[m].parts[k].state \in {"completed", "error"}

-----------------------------------------------------------------------------
(* Claims on a turn run through an entry path.                             *)

\* The tool part of the current message made of the k-th call of the frame.
PartOfCall(k) ==
    ToolParts(CurrentParts)[Len(ToolParts(CurrentParts)) - Len(runner.tool_calls) + k]

\* The k-th call of the frame streamed an argument text that is not JSON.
NotParsed(k) == ~json_loads(runner.tool_calls[k]._args_str).ok

(* C21: a tool call whose accumulated argument string is not valid JSON is *)
(* kept with input {"raw": <the string>}: it is a tool part of the step's  *)
(* message, the step does not fail on it, and it is handed to tool         *)
(* execution: once the loop over the calls has passed it, the tool was     *)
(* executed with it and its failure stayed on the call.                    *)
C21_RawFallbackKeepsCall ==
    runner.pc \in {"tools", "executing", "finally"} =>
        \A k \in 1..Len(runner.tool_calls) :
            NotParsed(k) =>
                /\ PartOfCall(k).id = runner.tool_calls[k].id
                /\ PartOfCall(k).tool_name = runner.tool_calls[k].tool_name
                /\ PartOfCall(k).input = << <<S_raw, runner.tool_calls[k]._args_str>> >>
                /\ runner.messages[Len(runner.messages)].error = <<>>
                /\ (\/ k < runner.call
                    \/ k = runner.call /\ runner.pc \in {"executing", "finally"})
                   => \E i \in 1..Len(runner.executions) :
                          runner.executions[i] = PartOfCall(k).id
                /\ k < runner.call => PartOfCall(k).state = "error"

\* The read call with the cut argument text was executed, failed, and the
\* loop went on to execute the call after it.
C21_Witness ==
    /\ runner.pc = "executing"
    /\ runner.call = 2
    /\ runner.tool_calls[1]._args_str = CutArgsText
    /\ PartOfCall(1).input = << <<S_raw, CutArgsText>> >>
    /\ PartOfCall(1).state = "error"
    /\ PartOfCall(2).state = "running"

\* The text parts of the message run() returned, and the whole of its text.
ReturnedMessage == runner.messages[Len(runner.messages)]
TextParts(parts) == SelectSeq(parts, LAMBDA q : q.type = "text")

\* The turn was cancelled while the response streamed or a tool executed.
Interrupted ==
    \/ last.op = "cancel"
    \/ last.op = "after_finally" /\ last.kind = "cancel"

\* Where chunk stands in text.
Places(text, chunk) == {i \in 1..Len(text) : text[i] = chunk}

(* C22: when the turn is cancelled while the response is streaming or      *)
(* while a tool is executing, run() returns the message of the step with   *)
(* finish_reason interrupted instead of raising, and each text chunk       *)
(* received from the interrupted model call stands exactly once in the     *)
(* message's one text part, in the order of arrival.                       *)
C22_InterruptKeepsText ==
    Interrupted =>
        /\ runner.pc = "returned"
        /\ ReturnedMessage.role = "assistant"
        /\ ReturnedMessage.finish_reason = "interrupted"
        /\ Len(TextParts(ReturnedMessage.parts)) <= 1
        /\ \A k \in 1..Len(runner.received) :
              /\ Cardinality(Places(TextOf(ReturnedMessage.parts, 1),
                                    runner.received[k])) = 1
              /\ k > 1 =>
                    Places(TextOf(ReturnedMessage.parts, 1), runner.received[k])
                      = {i + 1 : i \in Places(TextOf(ReturnedMessage.parts, 1),
                                              runner.received[k - 1])}

\* The stream of the call made for the answer r was cancelled after two
\* text chunks, the failed call before it had streamed text as well.
C22_Witness ==
    /\ last.op = "cancel"
    /\ Len(runner.received) = 2
    /\ runner.frames # <<>>
    /\ runner.frames[1] # <<>>
    /\ Len(TextOf(ReturnedMessage.parts, 1)) > 2

(* C23: after a user interruption the session is persisted with its        *)
(* partial state before control returns to the caller, on every entry      *)
(* path: when the entry path has returned from an interrupted turn, the    *)
(* saved session is the session as the turn left it.                       *)
C23_InterruptedSessionIsSaved ==
    (/\ last.op = "return"
     /\ ReturnedMessage.finish_reason = "interrupted")
    => runner.saved = runner.messages

\* The turn before ended on an exception run() caught.
EndedOnException(messages, m) ==
    /\ m >= 1
    /\ messages[m].role = "assistant"
    /\ messages[m].finish_reason = "error"
    /\ messages[m].error = <<"Exception">>

(* C24: an exception raised during a step that is neither a permission     *)
(* failure nor a cancellation does not leave run(): run() returns the      *)
(* step's message with the text of the exception on its error field and    *)
(* finish_reason error, and the next run() on the session can be entered   *)
(* and can take its first step.                                            *)
C24_ExceptionEndsTurnOnly ==
    /\ last.op = "raise" =>
          /\ runner.pc = "returned"
          /\ ReturnedMessage.role = "assistant"
          /\ ReturnedMessage.error = <<"Exception">>
          /\ ReturnedMessage.finish_reason = "error"
    /\ (/\ runner.pc = "caller"
        /\ runner.turns < MaxRunTurns
        /\ EndedOnException(runner.messages, Len(runner.messages)))
       => ENABLED Enter(runner.entry)
    /\ (/\ runner.pc = "loop"
        /\ runner.step = 0
        /\ runner.model_calls < MaxModelCalls
        /\ EndedOnException(runner.messages, Len(runner.messages) - 1))
       => ENABLED RunStep

\* The second turn of a session took its step after the first turn ended
\* on an exception.
C24_Witness ==
    /\ last.op = "run_step"
    /\ runner.turns = 2
    /\ Len(runner.messages) = 4
    /\ EndedOnException(runner.messages, 2)
    /\ runner.request[Len(runner.request)].role = "user"

\* The message of the step before the current one, and its read calls.
StepBefore == runner.messages[Len(runner.messages) - 1]
ReadParts(parts) == SelectSeq(ToolParts(parts), LAMBDA q : q.tool_name = S_read)

\* In request the assistant entry at j holds the call id, and the entry of
\* role tool for id comes after it with only tool entries between them.
FoldedAt(request, j, id, content) ==
    /\ request[j].role = "assistant"
    /\ \E c \in 1..Len(request[j].tool_calls) : request[j].tool_calls[c].id = id
    /\ \E n \in (j + 1)..Len(request) :
          /\ request[n].role = "tool"
          /\ request[n].tool_call_id = id
          /\ request[n].content = content
          /\ \A b \in (j + 1)..n : request[b].role = "tool"

\* The model asked for tool calls on step 1, a read among them, and
\* answered step 2 with finish reason stop and no tool call; no model call
\* of the turn failed.
ReadThenStop ==
    /\ last.op = "end_of_stream"
    /\ last.reason = "stop"
    /\ runner.step = 2
    /\ runner.prompts = 0
    /\ runner.tool_calls = <<>>
    /\ ReadParts(StepBefore.parts) # <<>>

(* C26: when the model requests a read tool call on step 1 and answers     *)
(* with finish reason stop on step 2, the read tool was executed exactly   *)
(* once, the message list sent to the model at step 2 holds the assistant  *)
(* entry with the call followed by a tool entry with the same call id and  *)
(* the tool's output (its error when it failed), and run() returns after   *)
(* exactly two model calls.                                                *)
C26_ReadThenStop ==
    ReadThenStop =>
        /\ runner.pc = "returned"
        /\ ReturnedMessage.finish_reason = "stop"
        /\ runner.turns = 1 => runner.model_calls = 2
        /\ \A k \in 1..Len(ReadParts(StepBefore.parts)) :
              \E q \in {ReadParts(StepBefore.parts)[k]} :
                 /\ Cardinality({i \in 1..Len(runner.executions) :
                                    runner.executions[i] = q.id}) = 1
                 /\ q.state \in {"completed", "error"}
                 /\ \E j \in 1..Len(runner.request) :
                       FoldedAt(runner.request, j, q.id,
                                IF q.state = "completed" THEN q.output ELSE q.error)

\* Step 1 streamed text and one read call that succeeded, step 2 text only.
C26_Witness ==
    /\ ReadThenStop
    /\ Len(ToolParts(StepBefore.parts)) = 1
    /\ ReadParts(StepBefore.parts)[1].state = "completed"
    /\ ReadParts(StepBefore.parts)[1].output # <<>>
    /\ TextOf(StepBefore.parts, 1) # <<>>
    /\ TextOf(ReturnedMessage.parts, 1) # <<>>
    /\ Len(runner.request) = 4

\* The first model response of a turn was text only, at least one chunk of
\* it, and ended with finish reason stop.
TextThenStop ==
    /\ last.op = "end_of_stream"
    /\ last.reason = "stop"
    /\ runner.step = 1
    /\ runner.prompts = 0
    /\ runner.tool_calls = <<>>
    /\ runner.received # <<>>

(* C27: when the first model response of a turn is pure text ending with   *)
(* finish reason stop, run() returns after one step and one model call:    *)
(* one assistant message follows the user message, its only part is the    *)
(* text part holding the text chunks in arrival order, and its             *)
(* finish_reason is stop.                                                  *)
C27_TextThenStop ==
    TextThenStop =>
        /\ runner.pc = "returned"
        /\ StepBefore.role = "user"
        /\ ReturnedMessage.role = "assistant"
        /\ ReturnedMessage.finish_reason = "stop"
        /\ ReturnedMessage.error = <<>>
        /\ Len(ReturnedMessage.parts) = 1
        /\ ReturnedMessage.parts[1].type = "text"
        /\ Len(ReturnedMessage.parts[1].text) = Len(runner.received)
        /\ \A k \in 1..Len(runner.received) :
              ReturnedMessage.parts[1].text[k] = <<runner.model_calls, k>>
        /\ runner.turns = 1 => runner.model_calls = 1

\* Two text chunks, then stop.
C27_Witness ==
    /\ TextThenStop
    /\ Len(runner.received) = 2
    /\ runner.turns = 1

(* C28: the status task started for a tool execution is cancelled when the *)
(* execution settles, by success, exception or cancellation, and its end   *)
(* is awaited before the loop goes on: a status task is alive only while   *)
(* its own tool call is executing or settling, so none is alive when the   *)
(* next call starts, when the step ends or when run() has returned.        *)
C28_NoStatusTaskOutlivesItsCall ==
    /\ runner.status_task # "none" =>
          /\ runner.pc \in {"executing", "finally"}
          /\ CurrentCall.state = "running"
    /\ runner.pc = "finally" => runner.status_task # "sleeping"
    /\ last.op \in {"start_tool", "after_finally", "tools_done", "return"} =>
          runner.status_task = (IF runner.pc = "executing" THEN "sleeping" ELSE "none")

\* The second call of a step is executing with its own status task, after
\* the first one raised.
C28_Witness ==
    /\ runner.pc = "executing"
    /\ runner.call = 2
    /\ runner.status_task = "sleeping"
    /\ PartOfCall(1).state = "error"
    /\ PartOfCall(1).error = <<"KeyError">>

-----------------------------------------------------------------------------
(* Claims on the session manager.                                          *)

\* The sessions the manager stores, in memory or as files, whose id
\* contains the id asked for.
StoredMatches ==
    {q \in last.held \cup last.files : matches_id(q, last.session_id)}

(* C30: SessionManager.get(x) returns a session only if x is a substring   *)
(* of that session's id, with case, returns that session whenever exactly  *)
(* one stored session's id contains x, and returns none otherwise.         *)
C30_GetBySubstringOfId ==
    last.op = "get" =>
        /\ last.result.found => contains(last.result.id, last.session_id)
        /\ IF Cardinality(StoredMatches) = 1
           THEN /\ last.result.found
                /\ \E q \in StoredMatches : q.id = last.result.id
           ELSE ~last.result.found

-----------------------------------------------------------------------------
(* Claims on the calls the doom-loop detection compares.                   *)

\* The k-th most recent tool call of the session, as the detection holds it:
\* the tool name and the canonical argument string.
MostRecent(k) ==
    LET calls == AllCalls(session, 1)
        tc == calls[Len(calls) + 1 - k]
    IN  <<tc.tool_name, json_dumps(tc.input)>>

\* C31: the calls compared by the doom-loop detection are the three most
\* recent tool calls of the session in reverse chronological order (all of
\* them when the session holds fewer), also when one assistant message carries
\* several tool calls: within a message a later call is more recent.
C31_ComparesMostRecentInOrder ==
    last.op = "detect" =>
        LET recent == recent_calls(session, Len(session), 1, <<>>)
            n == Len(AllCalls(session, 1))
        IN  /\ Len(recent) = IF n < DOOM_LOOP_THRESHOLD THEN n ELSE DOOM_LOOP_THRESHOLD
            /\ \A k \in 1..Len(recent) : recent[k] = MostRecent(k)

-----------------------------------------------------------------------------
(* Claims on the retry prompt, error chunks and the abort flag.            *)

\* The answer given to the retry prompt of the step that is running, "None"
\* when the stream of the step has not ended with finish reason error.
Answered ==
    IF runner.pc \in {"tools", "executing", "finally"}
         /\ runner.finish_reason \in {"error", "aborted"}
    THEN runner.finish_reason
    ELSE "None"

\* C32: after a stream that ended with finish reason error the user is asked:
\* the answer r makes a new model call for the same assistant message without
\* consuming a step; the answer s ends the turn with finish_reason error; the
\* answer a sets the abort flag and ends the turn with finish_reason aborted
\* (an interrupt arriving afterwards left aside).
C32_RetrySkipAbort ==
    [][ /\ last'.op = "retry" =>
            /\ runner'.pc = "stream"
            /\ runner'.step = runner.step
            /\ Len(runner'.messages) = Len(runner.messages)
            /\ runner'.model_calls = runner.model_calls + 1
        /\ (last'.op = "end_of_stream" /\ last'.reason \in {"error", "aborted"}) =>
            /\ runner'.aborted = (runner.aborted \/ last'.reason = "aborted")
            /\ runner'.tool_calls = <<>> =>
                  /\ runner'.pc = "returned"
                  /\ runner'.messages[Len(runner'.messages)].finish_reason = last'.reason
        /\ (Answered # "None" /\ runner'.pc = "returned" /\ last'.op # "after_finally") =>
            runner'.messages[Len(runner'.messages)].finish_reason = Answered
        /\ (Answered # "None" /\ runner'.pc = "returned" /\ last'.op = "after_finally") =>
            runner'.messages[Len(runner'.messages)].finish_reason = "interrupted"
        /\ (Answered # "None" /\ runner'.pc # "returned") => runner'.pc # "loop"
      ]_vars

-----------------------------------------------------------------------------
(* The tool-call events of an OpenAI-compatible stream (src/src/llm/       *)
(* openai.py 89-112, src/src/llm/deepseek.py 102-125, the same code): each *)
(* entry of delta.tool_calls is turned into a tool_call chunk, a           *)
(* tool_call_delta chunk, or both, and _process_stream consumes them.  An  *)
(* entry that carries an id announces a tool call; one without an id       *)
(* continues the call announced last.                                      *)

MaxEvents == 3   \* entries of delta.tool_calls in one response

\* tc.function.arguments of an entry; the empty one stands for None and ""
ArgumentFragments == {<<>>, <<"{">>, <<"}">>}

\* list(current_tool_calls.keys())[-1]
LastKey(current_tool_calls) == current_tool_calls[Len(current_tool_calls)]

\* tc_id = tc.id or list(current_tool_calls.keys())[-1] if current_tool_calls else None
\* which Python reads as (tc.id or keys[-1]) if current_tool_calls else None
tc_id(tc, current_tool_calls) ==
    IF current_tool_calls # <<>>
    THEN IF tc.id # NoCallId THEN tc.id ELSE LastKey(current_tool_calls)
    ELSE NoCallId

\* if tc.id: current_tool_calls[tc.id] = {...}
announce(current_tool_calls, tc) ==
    IF tc.id = NoCallId \/ \E k \in 1..Len(current_tool_calls) : current_tool_calls[k] = tc.id
    THEN current_tool_calls
    ELSE Append(current_tool_calls, tc.id)

\* The chunks yielded for one entry, consumed by _process_stream in order:
\* the tool_call chunk when the entry carries an id, the tool_call_delta
\* chunk when it carries arguments.
consume_entry(tool_calls, tc, current_tool_calls) ==
    LET announced == IF tc.id # NoCallId THEN on_tool_call(tool_calls, tc.id, S_bash)
                     ELSE tool_calls
    IN  IF tc.arguments # <<>>
        THEN on_tool_call_delta(announced, tc_id(tc, current_tool_calls), tc.arguments)
        ELSE announced

TranslateInit ==
    /\ rules = <<>>
    /\ approved = <<>>
    /\ granted = {}
    /\ last = NoCall
    /\ agent_name = "build"
    /\ session = <<>>
    /\ turn = 0
    /\ pc = "idle"
    /\ step = 0
    /\ finish_reason = "None"
    /\ idx = 0
    /\ returned = 0
    /\ pool = {}
    /\ budget = 0
    /\ provider = [pc |-> "events", current_tool_calls |-> <<>>, events |-> 0,
                   api |-> [id \in CallIds |-> <<>>]]
    /\ assembler = [pc |-> "streaming", tool_calls |-> <<>>]
    /\ runner = NoRun
    /\ manager = NoStore

\* One entry of delta.tool_calls: api is what the API has sent for each
\* call so far, the fragments in order.
ToolCallEvent(tc) ==
    /\ provider.pc = "events"
    /\ provider.events < MaxEvents
    /\ tc.id = NoCallId => provider.current_tool_calls # <<>>
    /\ tc.id # NoCallId =>
          \A k \in 1..Len(provider.current_tool_calls) : provider.current_tool_calls[k] # tc.id
    /\ \E owner \in {IF tc.id # NoCallId THEN tc.id
                     ELSE LastKey(provider.current_tool_calls)} :
          provider' = [provider EXCEPT
                          !.events = @ + 1,
                          !.current_tool_calls = announce(@, tc),
                          !.api[owner] = @ \o tc.arguments]
    /\ assembler' = [assembler EXCEPT
                        !.tool_calls = consume_entry(@, tc, provider.current_tool_calls)]
    /\ last' = [op |-> "event", id |-> tc.id, arguments |-> tc.arguments]
    /\ UNCHANGED <<rules, approved, granted, runner, manager>>
    /\ UNCHANGED loopVars

\* chunk.choices[0].finish_reason: the finish chunk, and the arguments are
\* parsed by _process_stream
FinishEvent ==
    /\ provider.pc = "events"
    /\ provider' = [provider EXCEPT !.pc = "finished"]
    /\ assembler' =
         [assembler EXCEPT
            !.pc = "done",
            !.tool_calls =
                [i \in 1..Len(assembler.tool_calls) |->
                    parse_args(assembler.tool_calls[i],
                               json_loads(assembler.tool_calls[i]._args_str))]]
    /\ last' = [op |-> "finish"]
    /\ UNCHANGED <<rules, approved, granted, runner, manager>>
    /\ UNCHANGED loopVars

TranslateNext ==
    \/ \E id \in CallIds \cup {NoCallId}, arguments \in ArgumentFragments :
          ToolCallEvent([id |-> id, arguments |-> arguments])
    \/ FinishEvent

TranslateSpec == TranslateInit /\ [][TranslateNext]_vars

\* C33: in the OpenAI-compatible provider streams every argument fragment
\* reaches the tool call it belongs to: a fragment of the event that
\* announces a call (the first call of the response included) and a fragment
\* without an id, which belongs to the call announced last, so that while
\* the response streams the argument buffer of each call is what the API
\* sent for it.
C33_FragmentsKeepTheirCall ==
    provider.pc = "events" =>
        /\ Len(assembler.tool_calls) = Len(provider.current_tool_calls)
        /\ \A k \in 1..Len(assembler.tool_calls) :
              /\ assembler.tool_calls[k].id = provider.current_tool_calls[k]
              /\ assembler.tool_calls[k]._args_str = provider.api[assembler.tool_calls[k].id]

-----------------------------------------------------------------------------
(* One model call whose provider retries: OpenAIProvider.stream            *)
(* (src/src/llm/openai.py 57-178) makes its attempts inside one generator, *)
(* so that _process_stream (src/src/loop.py 196-350) consumes the chunks   *)
(* of every attempt in one async for, with the same current_text and       *)
(* tool_calls.  A failure met while an attempt streams is caught by the    *)
(* try of the for loop like one met when the call is made.                 *)

MaxStreamRetries == 2   \* config.max_retries of the provider
MaxAttemptTexts == 2    \* text chunks of one attempt
MaxAttemptCalls == 1    \* tool calls of one attempt

\* chunk.type == "error", the buffers reset
on_error_chunk_reset(buffers) == [buffers EXCEPT !.current_text = <<>>, !.tool_calls = <<>>]

\* chunk.type == "error": the error is printed
on_error_chunk(buffers) == buffers

AttemptsInit ==
    /\ rules = <<>>
    /\ approved = <<>>
    /\ granted = {}
    /\ last = NoCall
    /\ agent_name = "build"
    /\ session = <<>>
    /\ turn = 0
    /\ pc = "idle"
    /\ step = 0
    /\ finish_reason = "None"
    /\ idx = 0
    /\ returned = 0
    /\ pool = {}
    /\ budget = 0
    /\ provider = [pc |-> "attempt", attempt |-> 0, texts |-> 0, calls |-> 0]
    /\ assembler = [pc |-> "streaming", current_text |-> <<>>, tool_calls |-> <<>>,
                    errors |-> 0, finish_reason |-> "stop", parts |-> <<>>,
                    executed |-> <<>>]
    /\ runner = NoRun
    /\ manager = NoStore

AttemptsUnchanged ==
    /\ UNCHANGED <<rules, approved, granted, runner, manager>>
    /\ UNCHANGED loopVars

\* delta.content of the attempt: a text chunk
AttemptText ==
    /\ provider.pc = "attempt"
    /\ provider.texts < MaxAttemptTexts
    /\ \E content \in {<<provider.attempt, provider.texts + 1>>} :
          /\ assembler' = [assembler EXCEPT !.current_text = append_content(@, content)]
          /\ last' = [op |-> "chunk", type |-> "text", content |-> content]
    /\ provider' = [provider EXCEPT !.texts = @ + 1]
    /\ AttemptsUnchanged

\* delta.tool_calls of the attempt: the tool_call chunk of a call and the
\* tool_call_delta chunk of its arguments
AttemptToolCall(c) ==
    /\ provider.pc = "attempt"
    /\ provider.calls < MaxAttemptCalls
    /\ \E id \in {10 * (provider.attempt + 1) + provider.calls + 1} :
          /\ assembler' = [assembler EXCEPT
                !.tool_calls = on_tool_call_delta(on_tool_call(@, id, c.tool_name),
                                                  id, c.args)]
          /\ last' = [op |-> "chunk", type |-> "tool_call", id |-> id]
    /\ provider' = [provider EXCEPT !.calls = @ + 1]
    /\ AttemptsUnchanged

\* The attempt fails with a retryable error and attempts are left: the
\* error chunk, the wait, continue
AttemptFails ==
    /\ provider.pc = "attempt"
    /\ may_retry(provider.attempt, MaxStreamRetries)
    /\ provider' = [provider EXCEPT !.attempt = @ + 1, !.texts = 0, !.calls = 0]
    /\ assembler' = [on_error_chunk(assembler) EXCEPT !.errors = @ + 1]
    /\ last' = [op |-> "chunk", type |-> "error"]
    /\ AttemptsUnchanged

\* The tool calls handed to _execute_tools, which executes each.
executed_ids(tool_calls) == [k \in 1..Len(tool_calls) |-> tool_calls[k].id]

\* The finish chunk (reason "error" after the error chunk of a failure that
\* is not retried, the answer to the prompt being s), then the end of
\* _process_stream: the text part, the parsed tool calls as parts, and
\* _execute_tools
AttemptFinish(reason) ==
    /\ provider.pc = "attempt"
    /\ reason = "tool_calls" => provider.calls > 0
    /\ reason = "stop" => provider.calls = 0
    /\ provider' = [provider EXCEPT !.pc = "finished"]
    /\ \E b \in {IF reason = "error"
                 THEN [on_error_chunk(assembler) EXCEPT !.errors = @ + 1]
                 ELSE assembler} :
          assembler' = [b EXCEPT
              !.pc = "done", !.finish_reason = reason,
              !.parts = add_parsed_calls(add_current_text(<<>>, b.current_text),
                                         b.tool_calls, 1),
              !.executed = executed_ids(b.tool_calls)]
    /\ last' = [op |-> "chunk", type |-> "finish", reason |-> reason]
    /\ AttemptsUnchanged

AttemptsNext ==
    \/ AttemptText
    \/ \E c \in RunCalls : AttemptToolCall(c)
    \/ AttemptFails
    \/ \E reason \in {"stop", "tool_calls", "error"} : AttemptFinish(reason)

AttemptsSpec == AttemptsInit /\ [][AttemptsNext]_vars

\* C34: an error chunk leaves the text buffer of the step and its registered
\* tool calls, argument buffers included, as they were, and the chunks that
\* arrive after an error chunk accumulate into that same state: a text chunk
\* is appended to the text received before, a tool call is registered after
\* the calls registered before.
C34_ErrorChunkKeepsBuffers ==
    [][ /\ (last'.op = "chunk" /\ last'.type = "error") =>
              /\ assembler'.current_text = assembler.current_text
              /\ assembler'.tool_calls = assembler.tool_calls
        /\ (assembler.errors > 0 /\ last'.op = "chunk" /\ last'.type = "text") =>
              /\ assembler'.current_text = Append(assembler.current_text, last'.content)
              /\ assembler'.tool_calls = assembler.tool_calls
        /\ (assembler.errors > 0 /\ last'.op = "chunk" /\ last'.type = "tool_call") =>
              /\ assembler'.current_text = assembler.current_text
              /\ Len(assembler'.tool_calls) = Len(assembler.tool_calls) + 1
              /\ SubSeq(assembler'.tool_calls, 1, Len(assembler.tool_calls))
                     = assembler.tool_calls
              /\ assembler'.tool_calls[Len(assembler'.tool_calls)].id = last'.id
      ]_vars

\* An error chunk arrived between two text chunks, after a tool call.
C34_Witness ==
    /\ assembler.pc = "streaming"
    /\ assembler.errors > 0
    /\ last.op = "chunk" /\ last.type = "text"
    /\ Len(assembler.current_text) = 2
    /\ assembler.current_text[1][1] < assembler.current_text[2][1]
    /\ assembler.tool_calls # <<>>

\* What the attempt that reached its finish chunk streamed: its text chunks
\* and the ids of its tool calls.
StreamedText == [k \in 1..provider.texts |-> <<provider.attempt, k>>]
StreamedIds == [k \in 1..provider.calls |-> 10 * (provider.attempt + 1) + k]

\* C38: when a model call fails in the middle of its stream and an automatic
\* retry then succeeds, the text and the tool calls of the assistant message
\* are exactly those of the successful attempt, and only these tool calls
\* are executed.
C38_OnlyTheSuccessfulAttempt ==
    (assembler.pc = "done" /\ assembler.finish_reason # "error" /\ assembler.errors > 0) =>
        /\ TextOf(assembler.parts, 1) = StreamedText
        /\ executed_ids(ToolParts(assembler.parts)) = StreamedIds
        /\ assembler.executed = StreamedIds

-----------------------------------------------------------------------------
(* EditStreamPreview (src/src/ui/preview.py): the state machine that shows *)
(* the new_string value of an edit call while its arguments stream.  The   *)
(* Live display is left out: _start_live, _update_display and _stop_live   *)
(* change no field the state machine reads.                                *)

MaxDeltaLen == 3   \* characters of one fragment handed to process_delta
WINDOW_SIZE == 5

Backslash == "\\"
S_new_string_key == <<"\"", "n", "e", "w", "_", "s", "t", "r", "i", "n", "g", "\"">>

\* The argument texts streamed for an edit call: an escaped quote inside
\* the value; an escaped backslash right before the closing quote; an
\* escaped quote in an earlier value and an escaped newline.
EscapedQuoteText ==
    << "{", "\"", "n", "e", "w", "_", "s", "t", "r", "i", "n", "g", "\"",
       ":", "\"", "a", "\\", "\"", "b", "\"", "}" >>
EscapedBackslashText ==
    << "{", "\"", "n", "e", "w", "_", "s", "t", "r", "i", "n", "g", "\"",
       " ", ":", " ", "\"", "\\", "\\", "\"", "}", "\"" >>
EarlierValueText ==
    << "{", "\"", "o", "\"", ":", "\"", "\\", "\"", "\"", ",", "\"", "n",
       "e", "w", "_", "s", "t", "r", "i", "n", "g", "\"", ":", "\"", "x",
       "\\", "n", "y", "\"", "}" >>
PreviewTexts == {EscapedQuoteText, EscapedBackslashText, EarlierValueText}

\* EditStreamPreview.__init__
EditStreamPreview ==
    [state |-> "searching", buffer |-> <<>>, escape_next |-> FALSE,
     line_buffer |-> <<>>, line_count |-> 0, char_count |-> 0, recent_lines |-> <<>>]

\* recent_lines.append((line_count, line)), and pop(0) beyond WINDOW_SIZE
push_line(recent_lines, line_count, line) ==
    LET appended == Append(recent_lines, <<line_count, line>>)
    IN  IF Len(appended) > WINDOW_SIZE THEN Tail(appended) ELSE appended

\* _emit_line
_emit_line(p) ==
    [p EXCEPT !.line_count = p.line_count + 1, !.line_buffer = <<>>,
              !.recent_lines = push_line(p.recent_lines, p.line_count + 1, p.line_buffer)]

\* _emit_final_line
_emit_final_line(p) ==
    IF p.line_buffer # <<>> THEN _emit_line(p) ELSE p

\* buffer.split('"new_string"')[-1]: what follows the last of the
\* occurrences of the key taken from the left without overlap
RECURSIVE after_last_key(_, _)
after_last_key(buffer, i) ==
    IF i + Len(S_new_string_key) - 1 > Len(buffer) THEN buffer
    ELSE IF SubSeq(buffer, i, i + Len(S_new_string_key) - 1) = S_new_string_key
    THEN after_last_key(SubSeq(buffer, i + Len(S_new_string_key), Len(buffer)), 1)
    ELSE after_last_key(buffer, i + 1)

\* line_buffer += text; char_count += n
put(p, text, n) ==
    [p EXCEPT !.line_buffer = p.line_buffer \o text, !.char_count = p.char_count + n]

\* the character after a backslash, handled like any other character
escaped_char_unescaped(p, char) ==
    IF p.state = "in_string" /\ char = Quote
    THEN [_emit_final_line(p) EXCEPT !.state = "done"]
    ELSE p

\* _process_char with escape_next set, after the flag is cleared
escaped_char(p, char) ==
    IF p.state # "in_string" THEN p
    ELSE IF char = "n" THEN _emit_line([p EXCEPT !.char_count = p.char_count + 1])
    ELSE IF char = "t" THEN put(p, <<" ", " ", " ", " ">>, 1)
    ELSE IF char = "r" THEN p
    ELSE IF char = "u" THEN put(p, <<Backslash, "u">>, 2)
    ELSE put(p, <<char>>, 1)

\* _process_char
_process_char(p, char) ==
    IF p.escape_next THEN escaped_char([p EXCEPT !.escape_next = FALSE], char)
    ELSE IF char = Backslash THEN [p EXCEPT !.escape_next = TRUE]
    ELSE IF p.state = "searching"
    THEN LET buffer == Append(p.buffer, char)
         IN  IF /\ contains(buffer, S_new_string_key)
                /\ contains(after_last_key(buffer, 1), <<":">>)
             THEN [p EXCEPT !.state = "before_value", !.buffer = <<>>]
             ELSE [p EXCEPT !.buffer = buffer]
    ELSE IF p.state = "before_value"
    THEN IF char = Quote THEN [p EXCEPT !.state = "in_string"] ELSE p
    ELSE IF p.state = "in_string"
    THEN IF char = Quote THEN [_emit_final_line(p) EXCEPT !.state = "done"]
         ELSE put(p, <<char>>, 1)
    ELSE p

\* for char in delta: self._process_char(char), the first k characters
RECURSIVE process_chars(_, _, _)
process_chars(p, delta, k) ==
    IF k = 0 THEN p
    ELSE _process_char(process_chars(p, delta, k - 1), delta[k])

\* process_delta
process_delta(p, delta) ==
    IF delta = <<>> \/ p.state = "done" THEN p
    ELSE process_chars(p, delta, Len(delta))

PreviewInit ==
    /\ rules = <<>>
    /\ approved = <<>>
    /\ granted = {}
    /\ last = NoCall
    /\ agent_name = "build"
    /\ session = <<>>
    /\ turn = 0
    /\ pc = "idle"
    /\ step = 0
    /\ finish_reason = "None"
    /\ idx = 0
    /\ returned = 0
    /\ pool = {}
    /\ budget = 0
    /\ provider = NoStream
    /\ \E text \in PreviewTexts :
          assembler = [pc |-> "previewing", text |-> text, pos |-> 0,
                       previewer |-> EditStreamPreview]
    /\ runner = NoRun
    /\ manager = NoStore

\* A tool_call_delta chunk of the edit call: the next k characters of its
\* arguments go to previewer.process_delta
ProcessDelta(k) ==
    /\ assembler.pc = "previewing"
    /\ assembler.pos + k <= Len(assembler.text)
    /\ assembler.pos < Len(assembler.text)
    /\ \E delta \in {SubSeq(assembler.text, assembler.pos + 1, assembler.pos + k)} :
          /\ assembler' = [assembler EXCEPT
                              !.pos = @ + k,
                              !.previewer = process_delta(@, delta)]
          /\ last' = [op |-> "process_delta", delta |-> delta,
                      state |-> assembler.previewer.state]
    /\ UNCHANGED <<rules, approved, granted, provider, runner, manager>>
    /\ UNCHANGED loopVars

PreviewNext == \E k \in 0..MaxDeltaLen : ProcessDelta(k)

PreviewSpec == PreviewInit /\ [][PreviewNext]_vars

-----------------------------------------------------------------------------
(* Claims on the edit live preview.                                        *)

StateRank ==
    [state \in {"searching", "before_value", "in_string", "done"} |->
        CASE state = "searching" -> 1
          [] state = "before_value" -> 2
          [] state = "in_string" -> 3
          [] state = "done" -> 4]

\* The number of backslashes that stand right before position i of text.
RECURSIVE BackslashesBefore(_, _)
BackslashesBefore(text, i) ==
    IF i <= 1 THEN 0
    ELSE IF text[i - 1] # Backslash THEN 0
    ELSE 1 + BackslashesBefore(text, i - 1)

\* The character at position i is preceded by an escaping backslash.
EscapedAt(text, i) == BackslashesBefore(text, i) % 2 = 1

\* One character of a fragment: the preview before and after it, the
\* character at position i of the arguments.
ForwardOnly(before, after, text, i) ==
    /\ StateRank[after.state] \in {StateRank[before.state], StateRank[before.state] + 1}
    /\ (after.state = "in_string" /\ before.state # "in_string") =>
          /\ before.state = "before_value"
          /\ text[i] = Quote
    /\ (before.state = "in_string" /\ after.state # "in_string") =>
          /\ after.state = "done"
          /\ text[i] = Quote
          /\ ~EscapedAt(text, i)
    /\ (before.state = "in_string" /\ text[i] = Quote /\ EscapedAt(text, i)) =>
          /\ after.state = "in_string"
          /\ after.line_buffer = Append(before.line_buffer, Quote)

\* C35: the preview state machine only moves forward through searching,
\* before_value, in_string, done; it enters in_string only from before_value
\* on a quote; it leaves in_string only on a quote that no escaping backslash
\* precedes, an escaped quote inside the value being appended to the preview;
\* and a fragment processed after done changes nothing of the preview.
C35_PreviewMovesForward ==
    [][ last'.op = "process_delta" =>
          /\ assembler.previewer.state = "done" =>
                assembler'.previewer = assembler.previewer
          /\ assembler.previewer.state # "done" =>
                /\ assembler'.previewer
                      = process_chars(assembler.previewer, last'.delta, Len(last'.delta))
                /\ \A j \in 1..Len(last'.delta) :
                      ForwardOnly(process_chars(assembler.previewer, last'.delta, j - 1),
                                  process_chars(assembler.previewer, last'.delta, j),
                                  assembler.text, assembler.pos + j)
      ]_vars

\* A value with an escaped quote was previewed to its closing quote, and a
\* fragment was processed after done.
C35_Witness ==
    /\ last.op = "process_delta"
    /\ last.state = "done"
    /\ last.delta # <<>>
    /\ assembler.previewer.state = "done"
    /\ \E k \in 1..Len(assembler.previewer.recent_lines) :
          contains(assembler.previewer.recent_lines[k][2], <<Quote>>)

-----------------------------------------------------------------------------
(* Claims on the message list built for the model.                         *)

\* The places of request that hold the tool entry of the call id.
ResultsOf(request, id) ==
    {k \in 1..Len(request) : request[k].role = "tool" /\ request[k].tool_call_id = id}

\* C36: in every message list built for the model, each tool call listed in
\* an assistant entry has exactly one entry of role tool with its id, placed
\* after that assistant entry and before the next user or assistant entry,
\* also after turns that ended by a permission failure, an interrupt or the
\* step limit.
C36_EveryCallHasItsResult ==
    \A j \in 1..Len(runner.request) :
        runner.request[j].role = "assistant" =>
            \A c \in 1..Len(runner.request[j].tool_calls) :
                /\ Cardinality(ResultsOf(runner.request, runner.request[j].tool_calls[c].id)) = 1
                /\ \A k \in ResultsOf(runner.request, runner.request[j].tool_calls[c].id) :
                      /\ k > j
                      /\ \A m \in (j + 1)..k : runner.request[m].role = "tool"

-----------------------------------------------------------------------------
(* Claims on the abort flag.                                               *)

\* C37: once the abort flag of the AgentLoop of a turn is set, no tool
\* execution is started afterwards in that turn and no further model call is
\* made.
C37_NothingStartsAfterAbort ==
    [][ runner.aborted =>
          /\ runner'.executions = runner.executions
          /\ runner'.model_calls = runner.model_calls
      ]_vars

-----------------------------------------------------------------------------
(* Claims on the lifecycle of a tool call.                                 *)

\* The moves of a call in one step of the loop.  start_tool marks the call
\* running and makes the early permission check, which can fail: there a
\* call goes from pending through running to error in one step.
LifecycleMove(before, after) ==
    \/ after = before
    \/ before.state = "pending" /\ after.state = "running"
    \/ before.state = "running" /\ after.state \in {"completed", "error"}
    \/ /\ before.state = "pending" /\ after.state = "error"
       /\ \/ before.tool_name \notin ToolNames
          \/ last'.op = "start_tool" /\ last'.raised # "none"

\* Output and error as the state of the call requires them.
Recorded(tc) ==
    /\ tc.state = "completed" => (tc.output # <<>> /\ tc.error = <<>>)
    /\ tc.state = "error" => (tc.error # <<>> /\ tc.output = <<>>)
    /\ tc.state \in {"pending", "running"} => (tc.output = <<>> /\ tc.error = <<>>)

-----------------------------------------------------------------------------
(* Claims on the deletion of a session.                                    *)

\* C40: SessionManager.delete(id) removes only the session whose id is id:
\* every other stored session remains on disk and can be retrieved by its id
\* afterwards, whatever the ids and the creation dates of the stored
\* sessions.
C40_DeleteRemovesOnlyItsSession ==
    last.op = "delete" =>
        /\ manager.files = {f \in last.files : f.id # last.session_id}
        /\ manager._sessions = {q \in last.held : q.id # last.session_id}
        /\ \A f \in last.files :
              f.id # last.session_id => Found(f) \in get(manager, f.id)

====
